---- MODULE Spec2Model ----
(***************************************************************************)
(* Model of the MediCare Analytics data generator                          *)
(* (src/scripts/01_generate_data.py, src/config.py) and of the dashboard   *)
(* pages that read its output (src/streamlit_app).                         *)
(*                                                                         *)
(* Timestamps are minutes since START_DATE 00:00.  Every random draw of    *)
(* the code is a nondeterministic choice; a specification restricts each   *)
(* draw to a small candidate set (a record of sets, "d" below) and the     *)
(* actions keep of the candidates only the values the code can draw.       *)
(***************************************************************************)
EXTENDS Integers, Sequences, FiniteSets, TLC

(***************************************************************************)
(* Configuration (src/config.py)                                           *)
(***************************************************************************)
\* NUM_PATIENTS is 500 and NUM_STAFF is 150 in config.py; the model runs the
\* same loops over a smaller population.
NumPatients == 2
NumStaff == 2

MinutesPerHour == 60
HoursPerDay == 24
MinutesPerDay == HoursPerDay * MinutesPerHour

\* (end - start).days for START_DATE = 2020-01-01 and NUM_YEARS = 5:
\* 366 + 365 + 365 + 365 + 366.
HorizonDays == 1827

STAFF_ROLES ==
  << "Attending Physician", "Resident", "Nurse Practitioner", "Registered Nurse",
     "Licensed Practical Nurse", "Nursing Assistant", "Physical Therapist",
     "Occupational Therapist", "Respiratory Therapist", "Pharmacist" >>

Roles == {STAFF_ROLES[i] : i \in DOMAIN STAFF_ROLES}

\* bed_capacity of WARDS, by ward_id.
BedCapacity == << 20, 20, 30, 25, 20, 30, 25, 20, 15, 40, 40, 20 >>

\* severity_level of COMMON_DIAGNOSES, by diagnosis_id (generate_diagnoses
\* numbers the catalog 1..len in order).
SeverityLevel ==
  << "Critical", "Moderate", "Serious", "Mild", "Moderate", "Critical",
     "Moderate", "Moderate", "Serious", "Serious", "Mild", "Mild" >>

PatientIds == 1..NumPatients
StaffIds == 1..NumStaff
WardIds == DOMAIN BedCapacity
DiagnosisIds == DOMAIN SeverityLevel

(***************************************************************************)
(* Dimension tables                                                        *)
(***************************************************************************)
RECURSIVE BedsBefore(_)
\* Number of beds generate_beds has emitted before it reaches ward w.
BedsBefore(w) == IF w <= 1 THEN 0 ELSE BedsBefore(w - 1) + BedCapacity[w - 1]

\* bed_id values of the beds generate_beds creates for ward w.
BedsOfWard(w) == (BedsBefore(w) + 1)..(BedsBefore(w) + BedCapacity[w])

BedIds == UNION {BedsOfWard(w) : w \in WardIds}

\* ward_id column of the row of beds_df whose bed_id is b.
BedWard(b) == CHOOSE w \in WardIds : b \in BedsOfWard(w)

\* generate_medications(n=200) and generate_procedures(n=100) number their
\* rows 1..n.
NumMedications == 200
NumProcedures == 100
MedicationIds == 1..NumMedications
ProcedureIds == 1..NumProcedures

\* generate_procedures: avg_duration_minutes = random.randint(15, 480) for
\* each procedure.
IsProceduresTable(p) ==
  /\ DOMAIN p = ProcedureIds
  /\ \A i \in ProcedureIds : p[i] \in 15..480

\* generate_staff: role = random.choice(STAFF_ROLES) for each staff member.
IsStaffTable(t) ==
  /\ DOMAIN t = StaffIds
  /\ \A s \in StaffIds : t[s] \in Roles

\* Not the code: a filter that would also take nurse practitioners.
PhysiciansOrPractitioners(staff) ==
  {s \in DOMAIN staff :
     staff[s] \in {"Attending Physician", "Resident", "Nurse Practitioner"}}

\* staff_df[staff_df['role'].isin(['Attending Physician', 'Resident'])]
Physicians(staff) ==
  {s \in DOMAIN staff : staff[s] \in {"Attending Physician", "Resident"}}

\* Not the code: a filter that would also take nurse practitioners.
NursesAnyNurseRole(staff) ==
  {s \in DOMAIN staff : staff[s] \in {"Registered Nurse", "Nurse Practitioner"}}

\* staff_df[staff_df['role'] == 'Registered Nurse']
Nurses(staff) == {s \in DOMAIN staff : staff[s] = "Registered Nurse"}

(***************************************************************************)
(* generate_admissions: the computations of one inner-loop iteration       *)
(***************************************************************************)
\* start + timedelta(days=days_offset, hours=..., minutes=...)
AdmissionDatetime(days_offset, hour, minute) ==
  days_offset * MinutesPerDay + hour * MinutesPerHour + minute

\* Not the code: the Serious range one day too long.
LosRangeWrongSerious(severity) ==
  IF severity = "Critical" THEN 5..21
  ELSE IF severity = "Serious" THEN 3..15
  ELSE 1..7

\* The randint range of the length of stay for a severity level.
LosRange(severity) ==
  IF severity = "Critical" THEN 5..21
  ELSE IF severity = "Serious" THEN 3..14
  ELSE 1..7

\* Not the code: the length of stay added as hours.
DischargeDatetimeHours(admission_datetime, los) ==
  admission_datetime + los * MinutesPerHour

\* admission_datetime + timedelta(days=los)
DischargeDatetime(admission_datetime, los) ==
  admission_datetime + los * MinutesPerDay

\* (a - b).days of Python's timedelta: the floor of the difference in days.
TimedeltaDays(a, b) == (a - b) \div MinutesPerDay

\* Not the code: a window of less than 30 days.
IsReadmissionStrict(adms, adm_id, an, admission_datetime) ==
  IF an > 0
  THEN TimedeltaDays(admission_datetime, adms[adm_id - 1].discharge_datetime) < 30
  ELSE FALSE

\* Not the code: admissions[admission_id - 3].
PreviousIndexOneBefore(adm_id) == adm_id - 2

\* The index of admissions[admission_id - 2]: element admission_id - 2 of the
\* 0-based Python list is element admission_id - 1 of the 1-based sequence.
PreviousIndex(adm_id) == adm_id - 1

\* The readmission check against admissions[admission_id - 2].
IsReadmission(adms, adm_id, an, admission_datetime) ==
  IF an > 0
  THEN TimedeltaDays(admission_datetime,
                     adms[PreviousIndex(adm_id)].discharge_datetime) <= 30
  ELSE FALSE

\* Not the code: a sample with replacement.
IsSecondarySampleWithReplacement(ids) ==
  /\ Len(ids) \in 0..2
  /\ \A i \in DOMAIN ids : ids[i] \in 1..12

\* The sequences diagnoses_df.sample(n)['diagnosis_id'].tolist() can return:
\* n pairwise distinct diagnosis ids, n drawn by random.randint(0, 2).
IsSecondarySample(ids) ==
  /\ Len(ids) \in 0..2
  /\ \A i \in DOMAIN ids : ids[i] \in DiagnosisIds
  /\ \A i, j \in DOMAIN ids : i # j => ids[i] # ids[j]

(***************************************************************************)
(* State                                                                   *)
(***************************************************************************)
VARIABLES
  pc,              \* where the run is
  staff_df,        \* staff_id -> role, as generate_staff returned it
  admissions,      \* the list generate_admissions appends to
  admission_id,    \* its running id
  patient,         \* patient_id of the patients_df row of the outer loop
  num_admissions,  \* random.randint(2, 5) of the current patient
  adm_num,         \* inner loop counter
  procedures_df,   \* procedure_id -> avg_duration_minutes (generate_procedures)
  gen,             \* the dependent fact generator main() is running
  sampled_admissions,  \* admission ids of admissions_df.sample(frac), in order
  it,              \* loop variables of the running generator
  record_id,       \* its running row id (mar_id, vital_id, ...)
  row,             \* the row it appended last, as a set of at most one record
  record_admission_ids,  \* admission_id values of the rows appended so far
  run,             \* number of this execution of the script
  today,           \* the date of this execution, in days since START_DATE
  seeded,          \* what the stream seeded with 42 yields, draw by draw
  date_of_birth,   \* patient_id -> date_of_birth (generate_patients)
  hire_date,       \* staff_id -> hire_date (generate_staff)
  previous_run,    \* the day and the dimension tables of the execution before
  output_dir,      \* filename -> which file RAW_DATA_DIR holds under it
  saved,           \* number of datasets the write loop of main() has saved
  page,            \* the dashboard page whose script is running
  db,              \* query -> what executing it against the database does
  session,         \* what the user did: buttons and st.session_state
  at,              \* the block and the step of the page script to run next
  rendered,        \* the widgets rendered so far
  messages,        \* the st.error messages shown so far
  conn,            \* the handle of the global DatabaseConnection
  db_tables,       \* table -> which contents the database holds for it
  issued,          \* the kinds of SQL statement the dashboard has sent
  db_connection,   \* the module global _db_connection: None or an object
  objects,         \* number of DatabaseConnection objects constructed
  held,            \* caller -> the object get_db_connection() returned to it
  result,          \* caller -> how its last call on the object ended
  ran_on,          \* the handles a statement has been executed on
  buttons,         \* the search result rows shown with a View button
  selected_patient,   \* st.session_state.selected_patient
  selected_admission, \* st.session_state.selected_admission
  header,          \* the admission the Current Admission header shows
  clicked          \* the row whose View button was pressed in this rerun

\* Locals of generate_admissions.
adm_vars == << admissions, admission_id, patient, num_admissions, adm_num >>

\* Locals of the running dependent fact generator.  Its list of records is
\* append-only and is never read back by the generator, so the model keeps
\* the row appended last and the admission ids seen so far, not the list.
rec_vars == << gen, sampled_admissions, it, record_id, row, record_admission_ids >>

dim_vars == << staff_df, procedures_df, date_of_birth, hire_date >>

\* The execution of the script and what it finds and leaves outside itself.
run_vars == << run, today, seeded, previous_run, output_dir, saved >>

\* A run of a dashboard page script.
page_vars == << page, db, session, at, rendered, messages >>

\* The database the dashboard reads and the connection it keeps.
\* The module state of utils/database.py and the references to it.
object_vars == << db_connection, objects, held, result, ran_on >>

store_vars == << conn, db_tables, issued, object_vars >>

\* What the generators of the fact tables leave alone.
\* What the Patient Care Plan page shows of a patient and keeps of them.
view_vars == << buttons, selected_patient, selected_admission, header, clicked >>

fixed_vars == << dim_vars, run_vars, page_vars, store_vars, view_vars >>

vars ==
  << pc, dim_vars, adm_vars, rec_vars, run_vars, page_vars, store_vars, view_vars >>

\* An optional value (None in the code) is a set with at most one element.
None == {}
Some(x) == {x}

(***************************************************************************)
(* The dimension tables and the start of generate_admissions               *)
(***************************************************************************)
\* fake.date_of_birth(minimum_age=18, maximum_age=95) and
\* fake.date_between(start_date='-15y', end_date='-1y') count their years
\* back from the day of the call.  The model counts a year as 365 days.
DaysPerYear == 365

\* The generator seeded with 42 picks a date of a range as an offset from
\* the start of the range; the ranges below have the same width on every
\* day, so that the seed fixes the offset.
BirthOffsets == 0..((95 + 1 - 18) * DaysPerYear)
HireOffsets == 0..((15 - 1) * DaysPerYear)

\* fake.date_of_birth(minimum_age=18, maximum_age=95), called on day today
DateOfBirth(day, offset) == day - (95 + 1) * DaysPerYear + offset

\* fake.date_between(start_date='-15y', end_date='-1y'), called on day today
DateBetween(day, offset) == day - 15 * DaysPerYear + offset

\* What the streams seeded by Faker.seed(42), random.seed(42) and
\* np.random.seed(42) yield to generate_patients and generate_staff: the
\* offset of every date of birth, the role and the offset of the hire date
\* of every staff member.
SeededStreams(d) ==
  [ birth : [PatientIds -> d.birth_offsets \cap BirthOffsets],
    role : {t \in d.staff_tables : IsStaffTable(t)},
    hire : [StaffIds -> d.hire_offsets \cap HireOffsets] ]

\* The date_of_birth column generate_patients builds.
DatesOfBirth(day, stream) ==
  [i \in PatientIds |-> DateOfBirth(day, stream.birth[i])]

\* The hire_date column generate_staff builds.
HireDates(day, stream) ==
  [s \in StaffIds |-> DateBetween(day, stream.hire[s])]

\* The files main() saves, in the order of its datasets dict.
Datasets ==
  << "dim_patients.csv", "dim_staff.csv", "dim_wards.csv", "dim_medications.csv",
     "dim_procedures.csv", "dim_diagnoses.csv", "dim_beds.csv", "dim_date.csv",
     "fact_admissions.csv", "fact_medication_administration.csv",
     "fact_vital_signs.csv", "fact_daily_activities.csv", "fact_procedures.csv",
     "fact_lab_results.csv", "fact_care_plan_goals.csv" >>

Filenames == {Datasets[i] : i \in DOMAIN Datasets}

\* The first execution of the script: RAW_DATA_DIR holds under every
\* filename what was there before (a file of an earlier run or none).
FirstRun ==
  /\ run = 1
  /\ previous_run = None
  /\ output_dir = [f \in Filenames |-> "previous"]
  /\ saved = 0

\* No fact generator has started.
GeneratorsNotStarted ==
  /\ gen = "none"
  /\ sampled_admissions = << >>
  /\ it = [k |-> 0]
  /\ record_id = 1
  /\ row = None
  /\ record_admission_ids = {}
  /\ admissions = << >>
  /\ admission_id = 1
  /\ patient = 0
  /\ num_admissions = 0
  /\ adm_num = 0

\* The callers of get_db_connection() that keep the object it returned.
NumCallers == 3

Callers == 1..NumCallers

\* The database holds the tables as they were loaded, the dashboard has not
\* connected and has sent no statement.
StoreLoaded ==
  /\ conn = "none"
  /\ db_tables = [f \in Filenames |-> "loaded"]
  /\ issued = {}
  /\ db_connection = None
  /\ objects = 0
  /\ held = [c \in Callers |-> None]
  /\ result = [c \in Callers |-> "none"]
  /\ ran_on = {}

\* A browser session that has not used the Patient Care Plan page.
NothingViewed ==
  /\ buttons = << >>
  /\ selected_patient = None
  /\ selected_admission = None
  /\ header = None
  /\ clicked = None

\* No dashboard page is open.
NoPage ==
  /\ StoreLoaded
  /\ NothingViewed
  /\ page = "none"
  /\ db = << >>
  /\ session = [search |-> FALSE, selected |-> FALSE]
  /\ at = [block |-> 0, step |-> 0]
  /\ rendered = {}
  /\ messages = {}

\* State when main() has built the dimension tables and generate_admissions
\* has initialised its list: every staff member has a role drawn from
\* STAFF_ROLES.
main_dimensions(d) ==
  /\ today \in d.today
  /\ seeded \in SeededStreams(d)
  /\ date_of_birth = DatesOfBirth(today, seeded)
  /\ staff_df = seeded.role
  /\ hire_date = HireDates(today, seeded)
  /\ procedures_df \in {p \in d.procedures : IsProceduresTable(p)}
  /\ pc = "admissions"
  /\ FirstRun
  /\ GeneratorsNotStarted
  /\ NoPage

\* Not the code: a patient may get a single admission.
NumAdmissionsRangeFromOne == 1..5

\* The range of random.randint(2, 5).
NumAdmissionsRange == 2..5

\* for _, patient in patients_df.iterrows(): num_admissions = random.randint(2, 5)
next_patient(d) ==
  /\ pc = "admissions"
  /\ adm_num = num_admissions
  /\ patient < NumPatients
  /\ patient' = patient + 1
  /\ \E n \in d.num_admissions \cap NumAdmissionsRange : num_admissions' = n
  /\ adm_num' = 0
  /\ UNCHANGED << pc, fixed_vars, admissions, admission_id, rec_vars >>

\* One iteration of "for adm_num in range(num_admissions)".
generate_admission(d) ==
  /\ pc = "admissions"
  /\ patient >= 1
  /\ adm_num < num_admissions
  /\ IF Physicians(staff_df) = {}
     THEN \* .sample(1) of an empty frame raises ValueError
          /\ pc' = "failed"
          /\ UNCHANGED << fixed_vars, adm_vars, rec_vars >>
     ELSE \E days_offset \in d.days \cap 0..HorizonDays,
             hour \in d.hours \cap 0..23,
             minute \in d.minutes \cap 0..59,
             diagnosis \in d.diagnoses \cap DiagnosisIds,
             ward \in d.wards \cap WardIds,
             doctor \in d.staff \cap Physicians(staff_df),
             secondary \in {s \in d.secondary : IsSecondarySample(s)} :
            \E los \in d.los[diagnosis] \cap LosRange(SeverityLevel[diagnosis]),
               bed \in d.beds \cap {b \in BedIds : BedWard(b) = ward} :
              LET admission_datetime == AdmissionDatetime(days_offset, hour, minute)
                  discharge_datetime == DischargeDatetime(admission_datetime, los)
                  is_readmission == IsReadmission(admissions, admission_id, adm_num,
                                                  admission_datetime)
                  admission ==
                    [ admission_id |-> admission_id,
                      patient_id |-> patient,
                      ward_id |-> ward,
                      bed_id |-> bed,
                      admission_datetime |-> admission_datetime,
                      discharge_datetime |-> discharge_datetime,
                      primary_diagnosis_id |-> diagnosis,
                      secondary_diagnosis_ids |-> secondary,
                      attending_doctor_id |-> doctor,
                      length_of_stay |-> los,
                      is_readmission |-> is_readmission ]
              IN /\ admissions' = Append(admissions, admission)
                 /\ admission_id' = admission_id + 1
                 /\ adm_num' = adm_num + 1
                 /\ UNCHANGED << pc, fixed_vars, patient, num_admissions, rec_vars >>

\* Both loops are exhausted: df = pd.DataFrame(admissions); return df
return_admissions ==
  /\ pc = "admissions"
  /\ patient = NumPatients
  /\ adm_num = num_admissions
  /\ pc' = "admissions_done"
  /\ UNCHANGED << fixed_vars, adm_vars, rec_vars >>

(***************************************************************************)
(* The dependent fact generators: sampling the admissions                  *)
(***************************************************************************)
\* main() calls the six generators in this order.
Generators ==
  << "medication", "vitals", "activities", "procedures", "labs", "goals" >>

\* frac of admissions_df.sample(frac=...) in each generator, in tenths.
FracTenths(g) ==
  CASE g = "medication" -> 3
    [] g = "vitals" -> 3
    [] g = "activities" -> 4
    [] g = "procedures" -> 4
    [] g = "labs" -> 5
    [] g = "goals" -> 6

\* Not the code: frac * n truncated.
SampleSizeTruncated(tenths, n) == (tenths * n) \div 10

\* Number of rows DataFrame.sample(frac) returns for a frame of n rows:
\* round(frac * n), Python's round (ties go to the even integer).
SampleSize(tenths, n) ==
  LET q == (tenths * n) \div 10
      r == (tenths * n) % 10
  IN IF 2 * r < 10 THEN q
     ELSE IF 2 * r > 10 THEN q + 1
     ELSE IF q % 2 = 0 THEN q ELSE q + 1

RECURSIVE Ascending(_)
\* The elements of a finite set of integers as an ascending sequence.
Ascending(S) ==
  IF S = {} THEN << >>
  ELSE LET least == CHOOSE x \in S : \A y \in S : x <= y
       IN << least >> \o Ascending(S \ {least})

\* The rows DataFrame.sample can return: sampling is without replacement, so
\* a set of size rows of the frame.  The rows are visited in ascending order
\* of their position (the order of the sample is itself random in the code).
Samples(n, size) == {Ascending(S) : S \in {T \in SUBSET (1..n) : Cardinality(T) = size}}

\* Position in Generators of the generator that runs after the one running.
NextGenerator ==
  IF gen = "none" THEN 1
  ELSE 1 + (CHOOSE i \in DOMAIN Generators : Generators[i] = gen)

\* Loop variables of a generator before its first iteration: no admission
\* has been taken from the sample (k = 0) and every inner loop is exhausted.
InitialIt(g) ==
  CASE g = "medication" ->
         [k |-> 0, meds |-> << >>, m |-> 1, day |-> 0, doses_per_day |-> 0, dose |-> 0,
          first_mar_id |-> 1]
    [] g = "vitals" -> [k |-> 0, checks_per_day |-> 0, day |-> 0, check |-> 0,
                        first_vital_id |-> 1]
    [] g = "activities" -> [k |-> 0, day |-> 0, days |-> 0, first_activity_id |-> 1]
    [] g = "procedures" -> [k |-> 0, num_procedures |-> 0, proc_num |-> 0]
    [] g = "labs" -> [k |-> 0, num_lab_panels |-> 0, panel |-> 0]
    [] g = "goals" -> [k |-> 0, num_goals |-> 0, goal |-> 0]

\* main() calls the next generator, which initialises its list and id and
\* samples the admissions: sampled_admissions = admissions_df.sample(frac=...)
sample_admissions ==
  /\ pc \in {"admissions_done", "records_done"}
  /\ NextGenerator \in DOMAIN Generators
  /\ LET g == Generators[NextGenerator]
     IN /\ gen' = g
        /\ sampled_admissions'
             \in Samples(Len(admissions), SampleSize(FracTenths(g), Len(admissions)))
        /\ it' = InitialIt(g)
  /\ record_id' = 1
  /\ row' = None
  /\ record_admission_ids' = {}
  /\ pc' = "records"
  /\ UNCHANGED << fixed_vars, adm_vars >>

\* The admission row of the current iteration of "for _, admission in
\* sampled_admissions.iterrows()".
Admission == admissions[sampled_admissions[it.k]]

\* records.append(record); id += 1
AppendRecord(record) ==
  /\ row' = Some(record)
  /\ record_id' = record_id + 1
  /\ record_admission_ids' = record_admission_ids \cup {record.admission_id}

\* A .sample(1) of an empty role-filtered staff frame raises ValueError and
\* the run ends.
RaiseValueError ==
  /\ pc' = "failed"
  /\ UNCHANGED << fixed_vars, adm_vars, rec_vars >>

\* The inner loops of the current admission are exhausted (or no admission
\* has been taken yet): control is at the head of the loop over the sample.
AtSampleLoopHead ==
  CASE gen = "medication" -> it.m > Len(it.meds)
    [] gen = "vitals" -> it.checks_per_day = 0
    [] gen = "activities" -> it.day = it.days
    [] gen = "procedures" -> it.proc_num = it.num_procedures
    [] gen = "labs" -> it.panel = it.num_lab_panels
    [] gen = "goals" -> it.goal = it.num_goals

\* The loop over the sample is exhausted: df = pd.DataFrame(records); return df
return_records ==
  /\ pc = "records"
  /\ it.k = Len(sampled_admissions)
  /\ AtSampleLoopHead
  /\ pc' = "records_done"
  /\ UNCHANGED << fixed_vars, adm_vars, rec_vars >>

(***************************************************************************)
(* generate_medication_administration                                      *)
(***************************************************************************)
\* Not the code: positions of medications_df taken for medication ids.
IsMedicationSampleByPosition(meds) ==
  /\ Len(meds) \in 3..8
  /\ \A i \in DOMAIN meds : meds[i] \in 0..(NumMedications - 1)
  /\ \A i, j \in DOMAIN meds : i # j => meds[i] # meds[j]

\* medications_df.sample(num_meds) with num_meds = random.randint(3, 8):
\* pairwise distinct medication ids.
IsMedicationSample(meds) ==
  /\ Len(meds) \in 3..8
  /\ \A i \in DOMAIN meds : meds[i] \in MedicationIds
  /\ \A i, j \in DOMAIN meds : i # j => meds[i] # meds[j]

\* for _, admission in sampled_admissions.iterrows(): draw the medications.
\* first_mar_id keeps the value mar_id has when the body starts: the rows of
\* the admission are those with mar_id from first_mar_id on.
medication_admission(d) ==
  /\ pc = "records" /\ gen = "medication"
  /\ it.m > Len(it.meds)
  /\ it.k < Len(sampled_admissions)
  /\ \E meds \in {s \in d.meds : IsMedicationSample(s)} :
       it' = [InitialIt("medication") EXCEPT !.k = it.k + 1, !.meds = meds,
                                             !.first_mar_id = record_id]
  /\ UNCHANGED << pc, fixed_vars, adm_vars, gen, sampled_admissions, record_id, row,
                  record_admission_ids >>

\* for day in range(admission['length_of_stay']): doses_per_day = randint(1, 4)
medication_day(d) ==
  /\ pc = "records" /\ gen = "medication"
  /\ it.m <= Len(it.meds)
  /\ it.doses_per_day = 0
  /\ \E doses_per_day \in d.doses_per_day \cap 1..4 :
       it' = [it EXCEPT !.doses_per_day = doses_per_day, !.dose = 0]
  /\ UNCHANGED << pc, fixed_vars, adm_vars, gen, sampled_admissions, record_id, row,
                  record_admission_ids >>

\* Not the code: a held dose given the reason of a refused one.
ReasonIfNotGivenHeldAsRefused(status) ==
  IF status = "Missed" THEN Some("Patient asleep")
  ELSE IF status \in {"Refused", "Held"} THEN Some("Patient refused")
  ELSE None

\* reason_if_not_given of a dose with the given status.
ReasonIfNotGiven(status) ==
  IF status = "Missed" THEN Some("Patient asleep")
  ELSE IF status = "Refused" THEN Some("Patient refused")
  ELSE IF status = "Held" THEN Some("Low BP")
  ELSE None

\* Not the code: the dose loop run once more than doses_per_day.
MedicationAdvanceOneMoreDose(los) ==
  IF it.dose < it.doses_per_day THEN [it EXCEPT !.dose = it.dose + 1]
  ELSE IF it.day + 1 < los
       THEN [it EXCEPT !.day = it.day + 1, !.doses_per_day = 0, !.dose = 0]
       ELSE [it EXCEPT !.m = it.m + 1, !.day = 0, !.doses_per_day = 0, !.dose = 0]

\* The loop variables after the body of the dose loop: the next dose, else
\* the next day, else the next medication.
MedicationAdvance(los) ==
  IF it.dose + 1 < it.doses_per_day THEN [it EXCEPT !.dose = it.dose + 1]
  ELSE IF it.day + 1 < los
       THEN [it EXCEPT !.day = it.day + 1, !.doses_per_day = 0, !.dose = 0]
       ELSE [it EXCEPT !.m = it.m + 1, !.day = 0, !.doses_per_day = 0, !.dose = 0]

\* One iteration of "for dose in range(doses_per_day)".
medication_dose(d) ==
  /\ pc = "records" /\ gen = "medication"
  /\ it.m <= Len(it.meds)
  /\ it.doses_per_day > 0
  /\ IF Physicians(staff_df) = {} \/ Nurses(staff_df) = {}
     THEN RaiseValueError
     ELSE \E status \in d.mar_statuses \cap {"Given", "Missed", "Refused", "Held"},
             minutes \in d.administered_minutes \cap (-30)..60,
             prescriber \in d.staff \cap Physicians(staff_df),
             nurse \in d.staff \cap Nurses(staff_df) :
            LET scheduled_dt == Admission.admission_datetime + it.day * MinutesPerDay
                                  + 8 * it.dose * MinutesPerHour
                administered_dt == IF status = "Given" THEN Some(scheduled_dt + minutes)
                                   ELSE None
            IN /\ AppendRecord(
                    [ mar_id |-> record_id,
                      patient_id |-> Admission.patient_id,
                      admission_id |-> Admission.admission_id,
                      medication_id |-> it.meds[it.m],
                      prescribed_by_staff_id |-> prescriber,
                      administered_by_staff_id |->
                        IF status = "Given" THEN Some(nurse) ELSE None,
                      scheduled_datetime |-> scheduled_dt,
                      administered_datetime |-> administered_dt,
                      status |-> status,
                      reason_if_not_given |-> ReasonIfNotGiven(status) ])
               /\ it' = MedicationAdvance(Admission.length_of_stay)
               /\ UNCHANGED << pc, fixed_vars, adm_vars, gen, sampled_admissions >>

(***************************************************************************)
(* generate_vital_signs                                                    *)
(***************************************************************************)
\* for _, admission in sampled_admissions.iterrows():
\*     checks_per_day = random.randint(2, 4)
\* first_vital_id keeps the value vital_id has when the body starts.
vitals_admission(d) ==
  /\ pc = "records" /\ gen = "vitals"
  /\ it.checks_per_day = 0
  /\ it.k < Len(sampled_admissions)
  /\ \E checks_per_day \in d.checks_per_day \cap 2..4 :
       it' = [InitialIt("vitals") EXCEPT !.k = it.k + 1,
                                         !.checks_per_day = checks_per_day,
                                         !.first_vital_id = record_id]
  /\ UNCHANGED << pc, fixed_vars, adm_vars, gen, sampled_admissions, record_id, row,
                  record_admission_ids >>

\* Not the code: the day loop run over range(length_of_stay + 1).
VitalsAdvanceOneMoreDay(los) ==
  IF it.check + 1 < it.checks_per_day THEN [it EXCEPT !.check = it.check + 1]
  ELSE IF it.day < los THEN [it EXCEPT !.day = it.day + 1, !.check = 0]
       ELSE [it EXCEPT !.checks_per_day = 0, !.day = 0, !.check = 0]

\* The loop variables after the body of the check loop.
VitalsAdvance(los) ==
  IF it.check + 1 < it.checks_per_day THEN [it EXCEPT !.check = it.check + 1]
  ELSE IF it.day + 1 < los THEN [it EXCEPT !.day = it.day + 1, !.check = 0]
       ELSE [it EXCEPT !.checks_per_day = 0, !.day = 0, !.check = 0]

\* One iteration of "for check in range(checks_per_day)".
vitals_check(d) ==
  /\ pc = "records" /\ gen = "vitals"
  /\ it.checks_per_day > 0
  /\ IF Nurses(staff_df) = {}
     THEN RaiseValueError
     ELSE \E nurse \in d.staff \cap Nurses(staff_df) :
            /\ AppendRecord(
                 [ vital_id |-> record_id,
                   patient_id |-> Admission.patient_id,
                   admission_id |-> Admission.admission_id,
                   recorded_datetime |->
                     Admission.admission_datetime + it.day * MinutesPerDay
                       + 6 * it.check * MinutesPerHour,
                   recorded_by_staff_id |-> nurse ])
            /\ it' = VitalsAdvance(Admission.length_of_stay)
            /\ UNCHANGED << pc, fixed_vars, adm_vars, gen, sampled_admissions >>

(***************************************************************************)
(* generate_daily_activities                                               *)
(***************************************************************************)
\* for _, admission in sampled_admissions.iterrows(): the day loop runs
\* range(admission['length_of_stay']).  first_activity_id keeps the value
\* activity_id has when the body starts.
activities_admission ==
  /\ pc = "records" /\ gen = "activities"
  /\ it.day = it.days
  /\ it.k < Len(sampled_admissions)
  /\ it' = [k |-> it.k + 1, day |-> 0,
            days |-> admissions[sampled_admissions[it.k + 1]].length_of_stay,
            first_activity_id |-> record_id]
  /\ UNCHANGED << pc, fixed_vars, adm_vars, gen, sampled_admissions, record_id, row,
                  record_admission_ids >>

\* datetime.date(): the day the timestamp falls on, in days since START_DATE.
Date(datetime) == datetime \div MinutesPerDay

\* Not the code: the date of recorded_datetime taken for activity_date.
ActivityDateOfRecordedDatetime(admission_datetime, day) ==
  Date(admission_datetime + day * MinutesPerDay + 20 * MinutesPerHour)

\* activity_date = (admission['admission_datetime'] + timedelta(days=day)).date()
ActivityDate(admission_datetime, day) ==
  Date(admission_datetime + day * MinutesPerDay)

\* One iteration of "for day in range(admission['length_of_stay'])".
activities_day(d) ==
  /\ pc = "records" /\ gen = "activities"
  /\ it.day < it.days
  /\ IF Nurses(staff_df) = {}
     THEN RaiseValueError
     ELSE \E nurse \in d.staff \cap Nurses(staff_df) :
            /\ AppendRecord(
                 [ activity_id |-> record_id,
                   patient_id |-> Admission.patient_id,
                   admission_id |-> Admission.admission_id,
                   activity_date |-> ActivityDate(Admission.admission_datetime, it.day),
                   recorded_by_staff_id |-> nurse,
                   recorded_datetime |->
                     Admission.admission_datetime + it.day * MinutesPerDay
                       + 20 * MinutesPerHour ])
            /\ it' = [it EXCEPT !.day = it.day + 1]
            /\ UNCHANGED << pc, fixed_vars, adm_vars, gen, sampled_admissions >>

(***************************************************************************)
(* generate_procedure_events                                               *)
(***************************************************************************)
\* for _, admission in admissions_with_procedures.iterrows():
\*     num_procedures = random.randint(1, 3)
procedures_admission(d) ==
  /\ pc = "records" /\ gen = "procedures"
  /\ it.proc_num = it.num_procedures
  /\ it.k < Len(sampled_admissions)
  /\ \E num_procedures \in d.num_procedures \cap 1..3 :
       it' = [k |-> it.k + 1, num_procedures |-> num_procedures, proc_num |-> 0]
  /\ UNCHANGED << pc, fixed_vars, adm_vars, gen, sampled_admissions, record_id, row,
                  record_admission_ids >>

\* One iteration of "for proc_num in range(num_procedures)".
procedures_event(d) ==
  /\ pc = "records" /\ gen = "procedures"
  /\ it.proc_num < it.num_procedures
  /\ IF Physicians(staff_df) = {}
     THEN RaiseValueError
     ELSE \E procedure \in d.procedure_ids \cap ProcedureIds,
             doctor \in d.staff \cap Physicians(staff_df),
             day \in d.event_days \cap 0..(Admission.length_of_stay - 1),
             hour \in d.procedure_hours \cap 8..17,
             minutes \in d.actual_minutes \cap (-30)..120,
             adjust \in d.duration_adjust \cap (-30)..60 :
            LET scheduled_dt == Admission.admission_datetime + day * MinutesPerDay
                                  + hour * MinutesPerHour
            IN /\ AppendRecord(
                    [ procedure_event_id |-> record_id,
                      patient_id |-> Admission.patient_id,
                      admission_id |-> Admission.admission_id,
                      procedure_id |-> procedure,
                      performed_by_staff_id |-> doctor,
                      scheduled_datetime |-> scheduled_dt,
                      actual_datetime |-> scheduled_dt + minutes,
                      duration_minutes |-> procedures_df[procedure] + adjust ])
               /\ it' = [it EXCEPT !.proc_num = it.proc_num + 1]
               /\ UNCHANGED << pc, fixed_vars, adm_vars, gen, sampled_admissions >>

(***************************************************************************)
(* generate_lab_results                                                    *)
(***************************************************************************)
\* for _, admission in admissions_with_labs.iterrows():
\*     num_lab_panels = random.randint(1, 4)
labs_admission(d) ==
  /\ pc = "records" /\ gen = "labs"
  /\ it.panel = it.num_lab_panels
  /\ it.k < Len(sampled_admissions)
  /\ \E num_lab_panels \in d.num_lab_panels \cap 1..4 :
       it' = [k |-> it.k + 1, num_lab_panels |-> num_lab_panels, panel |-> 0]
  /\ UNCHANGED << pc, fixed_vars, adm_vars, gen, sampled_admissions, record_id, row,
                  record_admission_ids >>

\* One iteration of "for _ in range(num_lab_panels)".
labs_panel(d) ==
  /\ pc = "records" /\ gen = "labs"
  /\ it.panel < it.num_lab_panels
  /\ IF Physicians(staff_df) = {}
     THEN RaiseValueError
     ELSE \E doctor \in d.staff \cap Physicians(staff_df),
             day \in d.event_days \cap 0..(Admission.length_of_stay - 1),
             hour \in d.collected_hours \cap 6..10,
             hours \in d.resulted_hours \cap 2..24 :
            LET collected_dt == Admission.admission_datetime + day * MinutesPerDay
                                  + hour * MinutesPerHour
            IN /\ AppendRecord(
                    [ lab_id |-> record_id,
                      patient_id |-> Admission.patient_id,
                      admission_id |-> Admission.admission_id,
                      ordered_by_staff_id |-> doctor,
                      collected_datetime |-> collected_dt,
                      resulted_datetime |-> collected_dt + hours * MinutesPerHour ])
               /\ it' = [it EXCEPT !.panel = it.panel + 1]
               /\ UNCHANGED << pc, fixed_vars, adm_vars, gen, sampled_admissions >>

(***************************************************************************)
(* generate_care_plan_goals                                                *)
(***************************************************************************)
\* The distinct entries of the statuses list.
GoalStatuses == {"Not Started", "In Progress", "Achieved", "Discontinued"}

\* Not the code: any candidate taken as the progress of a goal in progress.
ProgressInProgressAnyPercent(status, candidates) ==
  IF status = "Achieved" THEN {100}
  ELSE IF status = "In Progress" THEN candidates \cap 0..100
  ELSE {0}

\* The values progress can take for a status; candidates restricts the
\* random.randint(30, 90) drawn for a goal in progress.
Progress(status, candidates) ==
  IF status = "Achieved" THEN {100}
  ELSE IF status = "In Progress" THEN candidates \cap 30..90
  ELSE {0}

\* Not the code: the day offset of last_updated_datetime drawn from 0.
UpdatedDaysRangeFromZero(los) == 0..los

\* random.randint(1, admission['length_of_stay']): the day offset of
\* last_updated_datetime.
UpdatedDaysRange(los) == 1..los

\* for _, admission in admissions_with_goals.iterrows():
\*     num_goals = random.randint(2, 4)
goals_admission(d) ==
  /\ pc = "records" /\ gen = "goals"
  /\ it.goal = it.num_goals
  /\ it.k < Len(sampled_admissions)
  /\ \E num_goals \in d.num_goals \cap 2..4 :
       it' = [k |-> it.k + 1, num_goals |-> num_goals, goal |-> 0]
  /\ UNCHANGED << pc, fixed_vars, adm_vars, gen, sampled_admissions, record_id, row,
                  record_admission_ids >>

\* One iteration of "for _ in range(num_goals)".
goals_goal(d) ==
  /\ pc = "records" /\ gen = "goals"
  /\ it.goal < it.num_goals
  /\ IF Nurses(staff_df) = {}
     THEN RaiseValueError
     ELSE \E nurse \in d.staff \cap Nurses(staff_df),
             status \in d.goal_statuses \cap GoalStatuses,
             hours \in d.created_hours \cap 2..24,
             days \in d.updated_days \cap UpdatedDaysRange(Admission.length_of_stay) :
            \E progress \in Progress(status, d.progress) :
              /\ AppendRecord(
                   [ goal_id |-> record_id,
                     patient_id |-> Admission.patient_id,
                     admission_id |-> Admission.admission_id,
                     target_date |-> Date(Admission.discharge_datetime),
                     status |-> status,
                     progress_pct |-> progress,
                     created_by_staff_id |-> nurse,
                     created_datetime |->
                       Admission.admission_datetime + hours * MinutesPerHour,
                     last_updated_datetime |->
                       Admission.admission_datetime + days * MinutesPerDay ])
              /\ it' = [it EXCEPT !.goal = it.goal + 1]
              /\ UNCHANGED << pc, fixed_vars, adm_vars, gen, sampled_admissions >>

(***************************************************************************)
(* Spec: generate_admissions with the draws that decide the timing of an   *)
(* admission (day offset, hour, length of stay).                           *)
(***************************************************************************)
\* Candidate lengths of stay: the ends of the range of the diagnosis's
\* severity and the values just outside them.
LosCandidates ==
  [ i \in DiagnosisIds |->
      IF SeverityLevel[i] = "Critical" THEN {4, 5, 21, 22}
      ELSE IF SeverityLevel[i] = "Serious" THEN {2, 3, 14, 15}
      ELSE {0, 1, 7, 8} ]

TimingDraws ==
  [ today |-> {2500},
    birth_offsets |-> {0},
    hire_offsets |-> {0},
    staff_tables |-> {[s \in StaffIds |-> "Attending Physician"]},
    num_admissions |-> {2},
    days |-> {0, 32},
    hours |-> {0, 23},
    minutes |-> {0},
    diagnoses |-> {2},
    los |-> LosCandidates,
    wards |-> {1},
    beds |-> {1},
    staff |-> {1},
    secondary |-> {<< >>},
    procedures |-> {[i \in ProcedureIds |-> 15]} ]

Init == main_dimensions(TimingDraws)

Next ==
  \/ next_patient(TimingDraws)
  \/ generate_admission(TimingDraws)
  \/ return_admissions

Spec == Init /\ [][Next]_vars

(***************************************************************************)
(* SpecSeverity: generate_admissions with the draws that decide the        *)
(* primary diagnosis and the length of stay.                               *)
(***************************************************************************)
SeverityDraws ==
  [ TimingDraws EXCEPT !.days = {0}, !.hours = {0}, !.diagnoses = {1, 2, 3, 4} ]

InitSeverity == main_dimensions(SeverityDraws)

NextSeverity ==
  \/ next_patient(SeverityDraws)
  \/ generate_admission(SeverityDraws)
  \/ return_admissions

SpecSeverity == InitSeverity /\ [][NextSeverity]_vars

(***************************************************************************)
(* SpecFacts: main() from generate_admissions to the return of the last    *)
(* dependent fact generator.                                               *)
(***************************************************************************)
\* Staff tables with a physician and nurses, with a nurse, a resident and
\* others, without physician or nurse, and with a physician but no nurse.
FactsStaffTables ==
  { [s \in StaffIds |-> IF s = 1 THEN "Attending Physician" ELSE "Registered Nurse"],
    [s \in StaffIds |-> IF s = 1 THEN "Registered Nurse"
                        ELSE IF s = 2 THEN "Resident" ELSE "Pharmacist"],
    [s \in StaffIds |-> "Pharmacist"],
    [s \in StaffIds |-> IF s = 1 THEN "Resident" ELSE "Nurse Practitioner"] }

FactsDraws ==
  [ today |-> {2500},
    birth_offsets |-> {0},
    hire_offsets |-> {0},
    staff_tables |-> FactsStaffTables,
    num_admissions |-> {2},
    days |-> {0},
    hours |-> {23},
    minutes |-> {59},
    diagnoses |-> {12},
    los |-> [i \in DiagnosisIds |-> {2}],
    wards |-> {12},
    beds |-> {0, 1, 305, 306},
    staff |-> 0..(NumStaff + 1),
    secondary |-> {<< 12, 1 >>},
    procedures |-> {[i \in ProcedureIds |-> IF i = 1 THEN 15 ELSE 480]},
    meds |-> {<< 1, 100, 200 >>, << 0, 1, 2 >>, << 199, 200, 201 >>, << 7, 7, 8 >>},
    doses_per_day |-> {1, 4},
    mar_statuses |-> {"Given", "Missed", "Refused", "Held"},
    administered_minutes |-> {60},
    checks_per_day |-> {2, 4},
    num_procedures |-> {1, 3},
    procedure_ids |-> {0, 1, 100, 101},
    event_days |-> {1},
    procedure_hours |-> {8},
    actual_minutes |-> {120},
    duration_adjust |-> {60},
    num_lab_panels |-> {1, 4},
    collected_hours |-> {6},
    resulted_hours |-> {2},
    num_goals |-> {2, 4},
    goal_statuses |-> GoalStatuses,
    created_hours |-> {2},
    updated_days |-> {1},
    progress |-> {29, 30, 90, 91} ]

InitFacts == main_dimensions(FactsDraws)

NextFacts ==
  \/ next_patient(FactsDraws)
  \/ generate_admission(FactsDraws)
  \/ return_admissions
  \/ sample_admissions
  \/ medication_admission(FactsDraws)
  \/ medication_day(FactsDraws)
  \/ medication_dose(FactsDraws)
  \/ vitals_admission(FactsDraws)
  \/ vitals_check(FactsDraws)
  \/ activities_admission
  \/ activities_day(FactsDraws)
  \/ procedures_admission(FactsDraws)
  \/ procedures_event(FactsDraws)
  \/ labs_admission(FactsDraws)
  \/ labs_panel(FactsDraws)
  \/ goals_admission(FactsDraws)
  \/ goals_goal(FactsDraws)
  \/ return_records

SpecFacts == InitFacts /\ [][NextFacts]_vars

(***************************************************************************)
(* SpecDoses: generate_admissions and generate_medication_administration   *)
(* with the draws that decide the medications of an admission and the      *)
(* doses of a day.                                                         *)
(***************************************************************************)
DosesDraws ==
  [ FactsDraws EXCEPT
      !.staff_tables =
         {[s \in StaffIds |-> IF s = 1 THEN "Attending Physician" ELSE "Registered Nurse"]},
      !.hours = {8},
      !.minutes = {30},
      !.los = [i \in DiagnosisIds |-> {1, 2}],
      !.beds = {305},
      !.meds = {<< 1, 2 >>, << 1, 100, 200 >>, << 1, 100, 1 >>,
                << 200, 199, 198, 197, 4, 3, 2, 1 >>, << 1, 2, 3, 4, 5, 6, 7, 8, 9 >>},
      !.doses_per_day = {0, 1, 4, 5},
      !.mar_statuses = {"Given", "Held"},
      !.administered_minutes = {0} ]

InitDoses == main_dimensions(DosesDraws)

NextDoses ==
  \/ next_patient(DosesDraws)
  \/ generate_admission(DosesDraws)
  \/ return_admissions
  \/ sample_admissions
  \/ medication_admission(DosesDraws)
  \/ medication_day(DosesDraws)
  \/ medication_dose(DosesDraws)

SpecDoses == InitDoses /\ [][NextDoses]_vars

(***************************************************************************)
(* SpecDaily: the generators up to generate_daily_activities with the      *)
(* draws that decide the rows of a day of stay.                            *)
(***************************************************************************)
DailyDraws ==
  [ FactsDraws EXCEPT
      !.staff_tables =
         {[s \in StaffIds |-> IF s = 1 THEN "Attending Physician" ELSE "Registered Nurse"]},
      !.los = [i \in DiagnosisIds |-> {1, 3}],
      !.beds = {305},
      !.meds = {<< 1, 100, 200 >>},
      !.doses_per_day = {1},
      !.mar_statuses = {"Given"},
      !.checks_per_day = {1, 2, 3, 4, 5} ]

InitDaily == main_dimensions(DailyDraws)

NextDaily ==
  \/ next_patient(DailyDraws)
  \/ generate_admission(DailyDraws)
  \/ return_admissions
  \/ sample_admissions
  \/ medication_admission(DailyDraws)
  \/ medication_day(DailyDraws)
  \/ medication_dose(DailyDraws)
  \/ vitals_admission(DailyDraws)
  \/ vitals_check(DailyDraws)
  \/ activities_admission
  \/ activities_day(DailyDraws)
  \/ return_records

SpecDaily == InitDaily /\ [][NextDaily]_vars

(***************************************************************************)
(* SpecDerived: the generators with the draws that decide the timestamps   *)
(* and durations derived from an event of a child row: the first and the   *)
(* last value of each randint range.                                       *)
(***************************************************************************)
DerivedDraws ==
  [ FactsDraws EXCEPT
      !.staff_tables =
         {[s \in StaffIds |-> IF s = 1 THEN "Attending Physician" ELSE "Registered Nurse"]},
      !.los = [i \in DiagnosisIds |-> {1, 2}],
      !.beds = {305},
      !.staff = {1, 2},
      !.procedures = {[i \in ProcedureIds |-> IF i = 1 THEN 15 ELSE 480]},
      !.meds = {<< 1, 100, 200 >>},
      !.doses_per_day = {1},
      !.mar_statuses = {"Given"},
      !.administered_minutes = {-30, 60},
      !.checks_per_day = {2},
      !.num_procedures = {1},
      !.procedure_ids = {1, 2},
      !.event_days = {0, 1},
      !.procedure_hours = {8, 17},
      !.actual_minutes = {-30, 120},
      !.duration_adjust = {-30, 60},
      !.num_lab_panels = {1},
      !.collected_hours = {6, 10},
      !.resulted_hours = {2, 24},
      !.num_goals = {2},
      !.goal_statuses = {"Achieved"},
      !.created_hours = {2, 24},
      !.updated_days = {0, 1, 2, 3} ]

InitDerived == main_dimensions(DerivedDraws)

NextDerived ==
  \/ next_patient(DerivedDraws)
  \/ generate_admission(DerivedDraws)
  \/ return_admissions
  \/ sample_admissions
  \/ medication_admission(DerivedDraws)
  \/ medication_day(DerivedDraws)
  \/ medication_dose(DerivedDraws)
  \/ vitals_admission(DerivedDraws)
  \/ vitals_check(DerivedDraws)
  \/ activities_admission
  \/ activities_day(DerivedDraws)
  \/ procedures_admission(DerivedDraws)
  \/ procedures_event(DerivedDraws)
  \/ labs_admission(DerivedDraws)
  \/ labs_panel(DerivedDraws)
  \/ goals_admission(DerivedDraws)
  \/ goals_goal(DerivedDraws)
  \/ return_records

SpecDerived == InitDerived /\ [][NextDerived]_vars

(***************************************************************************)
(* SpecCounts: generate_admissions with the draws that decide the number   *)
(* of admissions of a patient and the ward.                                *)
(***************************************************************************)
CountsDraws ==
  [ TimingDraws EXCEPT
      !.days = {0},
      !.hours = {0},
      !.los = [i \in DiagnosisIds |-> {1}],
      !.num_admissions = {1, 2, 5, 6},
      !.wards = {0, 1, 12, 13},
      !.beds = {1, 305} ]

InitCounts == main_dimensions(CountsDraws)

NextCounts ==
  \/ next_patient(CountsDraws)
  \/ generate_admission(CountsDraws)
  \/ return_admissions

SpecCounts == InitCounts /\ [][NextCounts]_vars

(***************************************************************************)
(* SpecHorizon: generate_admissions with the draws that decide the         *)
(* admission_datetime, at both ends of the horizon.                        *)
(***************************************************************************)
HorizonDraws ==
  [ TimingDraws EXCEPT
      !.days = {-1, 0, HorizonDays, HorizonDays + 1},
      !.hours = {0, 23},
      !.minutes = {0, 59},
      !.los = [i \in DiagnosisIds |-> {1}] ]

InitHorizon == main_dimensions(HorizonDraws)

NextHorizon ==
  \/ next_patient(HorizonDraws)
  \/ generate_admission(HorizonDraws)
  \/ return_admissions

SpecHorizon == InitHorizon /\ [][NextHorizon]_vars

(***************************************************************************)
(* SpecDiagnoses: generate_admissions with the draws that decide the       *)
(* primary and the secondary diagnoses.                                    *)
(***************************************************************************)
DiagnosesDraws ==
  [ TimingDraws EXCEPT
      !.days = {0},
      !.hours = {0},
      !.diagnoses = {0, 1, 12, 13},
      !.los = [i \in DiagnosisIds |-> {5}],
      !.secondary = {<< >>, << 1 >>, << 12, 1 >>, << 1, 1 >>, << 0 >>, << 13, 1 >>,
                     << 1, 2, 3 >>} ]

InitDiagnoses == main_dimensions(DiagnosesDraws)

NextDiagnoses ==
  \/ next_patient(DiagnosesDraws)
  \/ generate_admission(DiagnosesDraws)
  \/ return_admissions

SpecDiagnoses == InitDiagnoses /\ [][NextDiagnoses]_vars

(***************************************************************************)
(* SpecPlacement: generate_admissions with the draws that decide the ward, *)
(* the bed and the attending doctor.                                       *)
(***************************************************************************)
PlacementDraws ==
  [ FactsDraws EXCEPT
      !.days = {0},
      !.hours = {0},
      !.minutes = {0},
      !.secondary = {<< >>},
      !.wards = {1, 12},
      !.beds = {0, 1, 20, 21, 285, 286, 305, 306} ]

InitPlacement == main_dimensions(PlacementDraws)

NextPlacement ==
  \/ next_patient(PlacementDraws)
  \/ generate_admission(PlacementDraws)
  \/ return_admissions

SpecPlacement == InitPlacement /\ [][NextPlacement]_vars

(***************************************************************************)
(* SpecRepro: the script is executed, and executed again on the same or a  *)
(* later day.  The seeding at module level restarts the streams, so each   *)
(* execution gets the same draws; the configuration does not change.       *)
(***************************************************************************)
\* Executions of the script the model follows.
MaxRuns == 2

\* patients_df = generate_patients()
generate_patients ==
  /\ pc = "start"
  /\ date_of_birth' = DatesOfBirth(today, seeded)
  /\ pc' = "patients_done"
  /\ UNCHANGED << staff_df, hire_date, procedures_df, adm_vars, rec_vars, run_vars,
                  page_vars, store_vars, view_vars >>

\* staff_df = generate_staff()
generate_staff ==
  /\ pc = "patients_done"
  /\ staff_df' = seeded.role
  /\ hire_date' = HireDates(today, seeded)
  /\ pc' = "staff_done"
  /\ UNCHANGED << date_of_birth, procedures_df, adm_vars, rec_vars, run_vars,
                  page_vars, store_vars, view_vars >>

\* The dimension tables an execution holds once generate_staff has returned.
DimensionTables ==
  [date_of_birth |-> date_of_birth, role |-> staff_df, hire_date |-> hire_date]

\* The script is started again: a new process, whose module level seeds the
\* streams with 42 again, on a day that is not before the last one.
execute_again(d) ==
  /\ pc = "staff_done"
  /\ run < MaxRuns
  /\ run' = run + 1
  /\ previous_run' = Some([day |-> today, tables |-> DimensionTables])
  /\ today' \in {t \in d.today : t >= today}
  /\ date_of_birth' = << >>
  /\ staff_df' = << >>
  /\ hire_date' = << >>
  /\ pc' = "start"
  /\ UNCHANGED << seeded, output_dir, saved, procedures_df, adm_vars, rec_vars,
                  page_vars, store_vars, view_vars >>

ReproDraws ==
  [ TimingDraws EXCEPT
      !.today = {2500, 2501},
      !.birth_offsets = {-1, 0, (95 + 1 - 18) * DaysPerYear, (95 + 1 - 18) * DaysPerYear + 1},
      !.hire_offsets = {-1, 0, (15 - 1) * DaysPerYear, (15 - 1) * DaysPerYear + 1},
      !.staff_tables = {[s \in StaffIds |-> "Attending Physician"],
                        [s \in StaffIds |-> "Registered Nurse"]} ]

\* The script has been started: the streams are seeded, no table is built.
InitRepro ==
  /\ pc = "start"
  /\ today \in ReproDraws.today
  /\ seeded \in SeededStreams(ReproDraws)
  /\ date_of_birth = << >>
  /\ staff_df = << >>
  /\ hire_date = << >>
  /\ procedures_df = << >>
  /\ FirstRun
  /\ GeneratorsNotStarted
  /\ NoPage

NextRepro ==
  \/ generate_patients
  \/ generate_staff
  \/ execute_again(ReproDraws)

SpecRepro == InitRepro /\ [][NextRepro]_vars

(***************************************************************************)
(* SpecMain: main() from generate_admissions to the end of its write loop. *)
(***************************************************************************)
\* Not the code: the tables written while the generators still run.
AtWriteLoopBeforeLastGenerator == pc = "records_done"

\* The write loop is reached when the last generator has returned.
AtWriteLoop == pc = "records_done" /\ gen = Generators[Len(Generators)]

\* df.to_csv(filepath, index=False) of the next dataset succeeds: the file
\* of this run replaces what RAW_DATA_DIR held under the filename.
to_csv ==
  /\ AtWriteLoop
  /\ saved < Len(Datasets)
  /\ output_dir' = [output_dir EXCEPT ![Datasets[saved + 1]] = "new"]
  /\ saved' = saved + 1
  /\ UNCHANGED << pc, dim_vars, adm_vars, rec_vars, run, today, seeded, previous_run,
                  page_vars, store_vars, view_vars >>

\* df.to_csv(filepath, index=False) of the next dataset raises (path
\* unwritable, disk full): when the file could not be opened the directory
\* keeps what it held, when the write broke off it holds a truncated file.
\* main() does not catch the exception: the loop ends there.
to_csv_raises ==
  /\ AtWriteLoop
  /\ saved < Len(Datasets)
  /\ \E left \in {"previous", "partial"} :
       output_dir' = [output_dir EXCEPT ![Datasets[saved + 1]] = left]
  /\ pc' = "failed"
  /\ UNCHANGED << dim_vars, adm_vars, rec_vars, run, today, seeded, previous_run,
                  saved, page_vars, store_vars, view_vars >>

\* The loop is exhausted: main() prints its summary and returns.
main_returns ==
  /\ AtWriteLoop
  /\ saved = Len(Datasets)
  /\ pc' = "complete"
  /\ UNCHANGED << dim_vars, adm_vars, rec_vars, run_vars, page_vars, store_vars, view_vars >>

\* One candidate for most draws; staff with and without the roles the
\* generators need.
MainDraws ==
  [ FactsDraws EXCEPT
      !.beds = {305},
      !.staff = {1, 2},
      !.meds = {<< 1, 100, 200 >>},
      !.doses_per_day = {1},
      !.mar_statuses = {"Given"},
      !.checks_per_day = {2},
      !.num_procedures = {1},
      !.procedure_ids = {1},
      !.num_lab_panels = {1},
      !.num_goals = {2},
      !.goal_statuses = {"Achieved"},
      !.progress = {30} ]

InitMain == main_dimensions(MainDraws)

NextMain ==
  \/ next_patient(MainDraws)
  \/ generate_admission(MainDraws)
  \/ return_admissions
  \/ sample_admissions
  \/ medication_admission(MainDraws)
  \/ medication_day(MainDraws)
  \/ medication_dose(MainDraws)
  \/ vitals_admission(MainDraws)
  \/ vitals_check(MainDraws)
  \/ activities_admission
  \/ activities_day(MainDraws)
  \/ procedures_admission(MainDraws)
  \/ procedures_event(MainDraws)
  \/ labs_admission(MainDraws)
  \/ labs_panel(MainDraws)
  \/ goals_admission(MainDraws)
  \/ goals_goal(MainDraws)
  \/ return_records
  \/ to_csv
  \/ to_csv_raises
  \/ main_returns

SpecMain == InitMain /\ [][NextMain]_vars

(***************************************************************************)
(* SpecDash: one run of the script of a dashboard page                     *)
(* (pages/1_Executive_Dashboard.py, pages/3_Patient_Care_Plan.py).         *)
(*                                                                         *)
(* A script is a sequence of blocks.  A block is the body of one try       *)
(* statement: steps that run in order, each executing its queries with     *)
(* query_to_df and then rendering its widget.  A widget counts as rendered *)
(* whether it shows rows or its "no data" text.                            *)
(***************************************************************************)
\* Queries that may fail during one run of a page.
MaxFailing == 2

Step(queries, widget) == [queries |-> queries, widget |-> widget]

\* pages/1_Executive_Dashboard.py: the KPI cards share one try statement;
\* the except clause of the alerts is "except: pass".
ExecutiveDashboard ==
  << [ guard |-> "always",
       gate |-> None,
       steps |-> << Step(<< "QUERY_CURRENT_OCCUPANCY" >>, Some("Bed Occupancy Rate")),
                    Step(<< "QUERY_AVG_LENGTH_OF_STAY" >>, Some("Avg Length of Stay")),
                    Step(<< "QUERY_READMISSION_RATE" >>, Some("30-Day Readmission Rate")),
                    Step(<< "QUERY_TODAY_ADMISSIONS" >>, Some("Today's Admissions")) >>,
       message |-> Some("Error loading KPIs"),
       otherwise |-> None ],
     [ guard |-> "always",
       gate |-> None,
       steps |-> << Step(<< "QUERY_ADMISSION_TRENDS" >>, Some("Admission Trends")) >>,
       message |-> Some("Error loading trends"),
       otherwise |-> None ],
     [ guard |-> "always",
       gate |-> None,
       steps |-> << Step(<< "QUERY_TOP_DIAGNOSES" >>, Some("Top 10 Diagnoses")) >>,
       message |-> Some("Error loading diagnoses"),
       otherwise |-> None ],
     [ guard |-> "always",
       gate |-> None,
       steps |-> << Step(<< "QUERY_REVENUE_BY_DEPARTMENT" >>, Some("Revenue by Department")) >>,
       message |-> Some("Error loading revenue data"),
       otherwise |-> None ],
     [ guard |-> "always",
       gate |-> None,
       steps |-> << Step(<< "QUERY_CURRENT_OCCUPANCY", "QUERY_READMISSION_RATE" >>,
                         Some("Alerts & Notifications")) >>,
       message |-> None,
       otherwise |-> None ] >>

\* pages/3_Patient_Care_Plan.py: the search runs when the Search button was
\* pressed with a search term; the block of the selected patient is one try
\* statement around the patient header and the seven tabs, and the tabs are
\* inside "if not patient.empty".
PatientCarePlan ==
  << [ guard |-> "search",
       gate |-> None,
       steps |-> << Step(<< "QUERY_SEARCH_PATIENTS" >>, Some("Search Results")) >>,
       message |-> Some("Error searching patients"),
       otherwise |-> None ],
     [ guard |-> "selected",
       gate |-> Some("QUERY_PATIENT_DETAILS"),
       steps |-> << Step(<< "QUERY_PATIENT_DETAILS" >>, Some("Current Admission")),
                    Step(<< "QUERY_PATIENT_CARE_GOALS" >>, Some("Care Goals")),
                    Step(<< "QUERY_PATIENT_MEDICATIONS" >>, Some("Medication (MAR)")),
                    Step(<< "QUERY_PATIENT_VITALS" >>, Some("Vital Signs")),
                    Step(<< >>, Some("Log New Daily Activity")),
                    Step(<< "QUERY_PATIENT_DAILY_ACTIVITIES" >>, Some("Daily Activities")),
                    Step(<< "QUERY_PATIENT_LABS" >>, Some("Lab Results")),
                    Step(<< "QUERY_PATIENT_PROCEDURES" >>, Some("Procedures")),
                    Step(<< "QUERY_PATIENT_HISTORY" >>, Some("History")) >>,
       message |-> Some("Error loading patient details"),
       otherwise |-> Some("Search for a patient above") ] >>

Pages == {"Executive Dashboard", "Patient Care Plan"}

Script(p) == IF p = "Executive Dashboard" THEN ExecutiveDashboard ELSE PatientCarePlan

Range(seq) == {seq[i] : i \in DOMAIN seq}

\* The queries the script of a page executes.
BlockQueries(block) ==
  UNION {Range(block.steps[i].queries) : i \in DOMAIN block.steps}

Queries(p) == UNION {BlockQueries(Script(p)[b]) : b \in DOMAIN Script(p)}

\* The queries whose result decides whether the rest of their block runs.
GateQueries(p) == UNION {Script(p)[b].gate : b \in DOMAIN Script(p)}

\* What the database can do with the queries during one run of a page:
\* a query returns rows, returns no row (tracked for gate queries only) or
\* makes execute_query raise.
DbStates(p) ==
  {f \in [Queries(p) -> {"rows", "empty", "fails"}] :
     /\ Cardinality({q \in Queries(p) : f[q] = "fails"}) <= MaxFailing
     /\ \A q \in Queries(p) : f[q] = "empty" => q \in GateQueries(p)}

\* query_to_df(query): execute_query prints the error and raises it again.
query_to_df(q) == db[q]

CurrentBlock == Script(page)[at.block]
CurrentStep == CurrentBlock.steps[at.step]

\* The condition of the if statement around a block.
GuardHolds(block) == IF block.guard = "always" THEN TRUE ELSE session[block.guard]

\* The step's queries all return: none of them raises.
Returns(step) == \A i \in DOMAIN step.queries : query_to_df(step.queries[i]) # "fails"

NextBlock == [block |-> at.block + 1, step |-> 1]

Rendering == pc = "render" /\ at.block \in DOMAIN Script(page)

\* Not the code: a new object constructed on every call.
NeedsNewObjectAlways == TRUE

\* if _db_connection is None:
NeedsNewObject == db_connection = None

\* get_db_connection(): the module global is set on the first call and
\* returned; db_connection' is the object returned.
get_db_connection ==
  /\ db_connection' = IF NeedsNewObject THEN Some(objects + 1) ELSE db_connection
  /\ objects' = IF NeedsNewObject THEN objects + 1 ELSE objects

\* query_to_df or initialize_database_from_csv gets the object, and the
\* statement is executed on its open handle, or no statement is executed.
ObjectUsed(executed) ==
  /\ get_db_connection
  /\ ran_on' = IF executed THEN ran_on \cup {"open"} ELSE ran_on
  /\ UNCHANGED << held, result >>

\* execute_query: self.connect() when self.conn is None, then the statement
\* is sent over the connection.
StatementSent(kind) ==
  /\ conn' = "open"
  /\ issued' = issued \cup {kind}
  /\ ObjectUsed(TRUE)

\* execute_query when self.connect() raises: self.conn stays None and no
\* statement is sent.
ConnectRaises ==
  /\ conn = "none"
  /\ UNCHANGED << conn, issued >>
  /\ ObjectUsed(FALSE)

\* The condition of the if statement is false: its else branch runs.
skip_block ==
  /\ Rendering
  /\ ~GuardHolds(CurrentBlock)
  /\ rendered' = rendered \cup CurrentBlock.otherwise
  /\ at' = NextBlock
  /\ UNCHANGED << pc, dim_vars, adm_vars, rec_vars, run_vars, page, db, session,
                  messages, store_vars, view_vars >>

\* The queries of the step return and its widget is rendered.  When the
\* gate query of the block returns no row, nothing of the block is rendered.
render_step ==
  /\ Rendering
  /\ GuardHolds(CurrentBlock)
  /\ Returns(CurrentStep)
  /\ LET gated == \E q \in CurrentBlock.gate : query_to_df(q) = "empty"
     IN /\ rendered' = IF gated THEN rendered ELSE rendered \cup CurrentStep.widget
        /\ at' = IF gated \/ at.step = Len(CurrentBlock.steps)
                 THEN NextBlock
                 ELSE [at EXCEPT !.step = at.step + 1]
  /\ IF CurrentStep.queries = << >>
     THEN UNCHANGED << conn, issued, object_vars >>
     ELSE StatementSent("SELECT")
  /\ UNCHANGED << pc, dim_vars, adm_vars, rec_vars, run_vars, page, db, session,
                  messages, db_tables, view_vars >>

\* A query of the step raises: the except clause of the block's try
\* statement shows its message, if it has one, and the script goes on after
\* the try statement.
except_Exception ==
  /\ Rendering
  /\ GuardHolds(CurrentBlock)
  /\ ~Returns(CurrentStep)
  /\ messages' = messages \cup CurrentBlock.message
  /\ at' = NextBlock
  /\ StatementSent("SELECT") \/ ConnectRaises
  /\ UNCHANGED << pc, dim_vars, adm_vars, rec_vars, run_vars, page, db, session,
                  rendered, db_tables, view_vars >>

\* The script has run to its end.
script_ends ==
  /\ pc = "render"
  /\ at.block = Len(Script(page)) + 1
  /\ pc' = "page_done"
  /\ UNCHANGED << dim_vars, adm_vars, rec_vars, run_vars, page_vars, store_vars, view_vars >>

\* A page is opened: the user may have pressed Search or selected a patient
\* on the Patient Care Plan page.
InitDash ==
  /\ pc = "render"
  /\ page \in Pages
  /\ db \in DbStates(page)
  /\ session \in [search : BOOLEAN, selected : BOOLEAN]
  /\ page = "Executive Dashboard" => session = [search |-> FALSE, selected |-> FALSE]
  /\ at = [block |-> 1, step |-> 1]
  /\ rendered = {}
  /\ messages = {}
  /\ StoreLoaded
  /\ NothingViewed
  /\ today = 2500
  /\ seeded = << >>
  /\ date_of_birth = << >>
  /\ staff_df = << >>
  /\ hire_date = << >>
  /\ procedures_df = << >>
  /\ FirstRun
  /\ GeneratorsNotStarted

NextDash ==
  \/ skip_block
  \/ render_step
  \/ except_Exception
  \/ script_ends

SpecDash == InitDash /\ [][NextDash]_vars

(***************************************************************************)
(* SpecApp: the interactions of a user with the dashboard (app.py,         *)
(* pages/3_Patient_Care_Plan.py, utils/database.py) with the duckdb        *)
(* backend.  Every interaction reruns the script of the open page from the *)
(* top; an action is one such rerun.  connects tells whether               *)
(* duckdb.connect succeeds when the script needs it, answers whether the   *)
(* queries of the rerun return.                                            *)
(***************************************************************************)
InitializeButton == "Initialize Database from CSV"

\* The script of app.py when the Initialize button is not pressed:
\* test_connection() runs SELECT 1; when it returns True the four quick
\* stats are queried, each in its own try statement, when it returns False
\* the error and the Initialize button are shown.
HomeScript(connects, answers) ==
  LET open == conn = "open" \/ connects
  IN /\ conn' = IF open THEN "open" ELSE "none"
     /\ issued' = IF open THEN issued \cup {"SELECT"} ELSE issued
     /\ rendered' = IF open /\ answers THEN {"Quick Overview"} ELSE {InitializeButton}
     /\ messages' = IF open /\ answers THEN {} ELSE {"Database connection failed"}
     /\ ObjectUsed(open)
     /\ UNCHANGED db_tables

\* The position of a file in the order in which its table is loaded; the
\* model takes the order of the datasets for the order of glob("*.csv").
DatasetIndex(f) == CHOOSE i \in DOMAIN Datasets : Datasets[i] = f

\* initialize_database_from_csv() after test_connection() returned False:
\* db.connect(), then CREATE OR REPLACE TABLE ... AS SELECT * FROM
\* read_csv_auto(...) for one CSV file after the other, then SHOW TABLES.
\* reconnects: db.connect() succeeds; csv_files: RAW_DATA_DIR holds CSV
\* files; loaded: the number of tables replaced before a statement raises
\* (all of them when none does).
initialize_database_from_csv(reconnects, csv_files, loaded) ==
  IF ~reconnects
  THEN /\ messages' = {"Initialization failed"}
       /\ ObjectUsed(FALSE)
       /\ UNCHANGED << conn, issued, db_tables >>
  ELSE IF ~csv_files
  THEN /\ conn' = "open"
       /\ messages' = {"Initialization failed"}
       /\ ObjectUsed(FALSE)
       /\ UNCHANGED << issued, db_tables >>
  ELSE /\ conn' = "open"
       /\ ObjectUsed(TRUE)
       /\ db_tables' = [f \in Filenames |->
                          IF DatasetIndex(f) <= loaded THEN "reloaded" ELSE db_tables[f]]
       /\ issued' = issued \cup {"CREATE OR REPLACE TABLE"}
                      \cup IF loaded = Len(Datasets) THEN {"SHOW TABLES"} ELSE {}
       /\ messages' = IF loaded = Len(Datasets)
                      THEN {"Database initialized successfully!"}
                      ELSE {"Initialization failed"}

\* The script of a page other than app.py.  The Executive Dashboard always
\* queries; the Patient Care Plan queries when Search was pressed or a
\* patient is selected.
PageScript(p, sess, connects, answers) ==
  LET queries == p = "Executive Dashboard" \/ sess.search \/ sess.selected
      open == conn = "open" \/ connects
      widgets == IF p = "Executive Dashboard" THEN {"Key Performance Indicators"}
                 ELSE (IF sess.search THEN {"Search Results"} ELSE {})
                        \cup (IF sess.selected THEN {"Log New Daily Activity"} ELSE {})
  IN /\ conn' = IF queries /\ open THEN "open" ELSE conn
     /\ issued' = IF queries /\ open THEN issued \cup {"SELECT"} ELSE issued
     /\ rendered' = IF queries /\ open /\ answers THEN widgets ELSE {}
     /\ messages' = IF queries /\ ~(open /\ answers) THEN {"Error"} ELSE {}
     /\ session' = sess
     /\ IF queries THEN ObjectUsed(open) ELSE UNCHANGED object_vars
     /\ UNCHANGED db_tables

app_frame == << pc, dim_vars, adm_vars, rec_vars, run_vars, db, at, view_vars >>

\* The user opens the home page.
open_home ==
  /\ pc = "app"
  /\ page' = "Home"
  /\ session' = [session EXCEPT !.search = FALSE]
  /\ \E connects, answers \in BOOLEAN : HomeScript(connects, answers)
  /\ UNCHANGED app_frame

\* The user presses "Initialize Database from CSV": the script of app.py
\* runs again, and the branch of the button is reached when
\* test_connection() returns False again.
press_initialize ==
  /\ pc = "app"
  /\ page = "Home"
  /\ InitializeButton \in rendered
  /\ \/ HomeScript(TRUE, TRUE)
     \/ /\ \E reconnects, csv_files \in BOOLEAN, loaded \in 0..Len(Datasets) :
             initialize_database_from_csv(reconnects, csv_files, loaded)
        /\ UNCHANGED rendered
  /\ UNCHANGED << app_frame, page, session >>

\* The user opens the Executive Dashboard or the Patient Care Plan.
open_page ==
  /\ pc = "app"
  /\ \E p \in Pages, connects, answers \in BOOLEAN :
       /\ page' = p
       /\ PageScript(p, [session EXCEPT !.search = FALSE], connects, answers)
  /\ UNCHANGED app_frame

\* The user presses Search with a search term.
press_search ==
  /\ pc = "app"
  /\ page = "Patient Care Plan"
  /\ \E connects, answers \in BOOLEAN :
       PageScript(page, [session EXCEPT !.search = TRUE], connects, answers)
  /\ UNCHANGED << app_frame, page >>

\* The user presses View on a search result: in the rerun st.button("Search")
\* is False, so the block that holds the View buttons does not run.
press_view ==
  /\ pc = "app"
  /\ page = "Patient Care Plan"
  /\ "Search Results" \in rendered
  /\ \E connects, answers \in BOOLEAN :
       PageScript(page, [session EXCEPT !.search = FALSE], connects, answers)
  /\ UNCHANGED << app_frame, page >>

\* The user presses Clear: selected_patient = None, then the script reruns.
press_clear ==
  /\ pc = "app"
  /\ page = "Patient Care Plan"
  /\ \E connects, answers \in BOOLEAN :
       PageScript(page, [search |-> FALSE, selected |-> FALSE], connects, answers)
  /\ UNCHANGED << app_frame, page >>

\* The user presses "Save Daily Activity": the rerun queries as every run
\* of the page does, and the branch of the button shows two messages.
press_save_daily_activity ==
  /\ pc = "app"
  /\ page = "Patient Care Plan"
  /\ "Log New Daily Activity" \in rendered
  /\ \E connects, answers \in BOOLEAN :
       PageScript(page, [session EXCEPT !.search = FALSE], connects, answers)
  /\ UNCHANGED << app_frame, page >>

\* The browser session starts on the home page; st.session_state may hold a
\* selected patient.
InitApp ==
  /\ pc = "app"
  /\ page = "Home"
  /\ session \in [search : {FALSE}, selected : BOOLEAN]
  /\ db = << >>
  /\ at = [block |-> 0, step |-> 0]
  /\ rendered = {}
  /\ messages = {}
  /\ StoreLoaded
  /\ NothingViewed
  /\ today = 2500
  /\ seeded = << >>
  /\ date_of_birth = << >>
  /\ staff_df = << >>
  /\ hire_date = << >>
  /\ procedures_df = << >>
  /\ FirstRun
  /\ GeneratorsNotStarted

NextApp ==
  \/ open_home
  \/ press_initialize
  \/ open_page
  \/ press_search
  \/ press_view
  \/ press_clear
  \/ press_save_daily_activity

SpecApp == InitApp /\ [][NextApp]_vars

(***************************************************************************)
(* SpecConn: callers of utils/database.py call get_db_connection(), and    *)
(* execute_query() and close() on the object it returned, in any order,    *)
(* with the duckdb backend.  conn is the handle of the object the module   *)
(* global refers to.                                                       *)
(***************************************************************************)
\* A caller calls get_db_connection() and keeps the object.
caller_gets(c) ==
  /\ pc = "calls"
  /\ conn' = IF NeedsNewObject THEN "none" ELSE conn
  /\ get_db_connection
  /\ held' = [held EXCEPT ![c] = db_connection']
  /\ UNCHANGED << dim_vars, adm_vars, rec_vars, run_vars, page_vars, pc, db_tables,
                  issued, result, ran_on, view_vars >>

\* Not the code: execute_query without its first two lines.
ConnIsNoneIgnored == FALSE

\* if self.conn is None:
ConnIsNone == conn = "none"

\* A caller calls execute_query() on its object.  connects: duckdb.connect
\* succeeds; answers: the statement returns.  When self.connect() raises
\* nothing is executed; otherwise the statement is executed on self.conn,
\* which raises AttributeError when self.conn is None.
execute_query(c) ==
  /\ pc = "calls"
  /\ held[c] # None
  /\ \E connects, answers \in BOOLEAN :
       IF ConnIsNone /\ ~connects
       THEN /\ result' = [result EXCEPT ![c] = "raised"]
            /\ UNCHANGED << conn, ran_on, issued >>
       ELSE /\ conn' = IF ConnIsNone THEN "open" ELSE conn
            /\ ran_on' = ran_on \cup {conn'}
            /\ issued' = IF conn' = "open" THEN issued \cup {"SELECT"} ELSE issued
            /\ result' = [result EXCEPT
                            ![c] = IF conn' = "open" /\ answers THEN "DataFrame"
                                   ELSE "raised"]
  /\ UNCHANGED << dim_vars, adm_vars, rec_vars, run_vars, page_vars, pc, db_tables,
                  db_connection, objects, held, view_vars >>

\* A caller calls close() on its object: if self.conn: self.conn.close();
\* self.conn = None
close(c) ==
  /\ pc = "calls"
  /\ held[c] # None
  /\ conn' = "none"
  /\ result' = [result EXCEPT ![c] = "closed"]
  /\ UNCHANGED << dim_vars, adm_vars, rec_vars, run_vars, page_vars, pc, db_tables,
                  issued, db_connection, objects, held, ran_on,
                  view_vars >>

\* utils/database.py has been imported and nothing has been called yet.
InitConn ==
  /\ pc = "calls"
  /\ NoPage
  /\ today = 2500
  /\ seeded = << >>
  /\ date_of_birth = << >>
  /\ staff_df = << >>
  /\ hire_date = << >>
  /\ procedures_df = << >>
  /\ FirstRun
  /\ GeneratorsNotStarted

NextConn ==
  \E c \in Callers :
    \/ caller_gets(c)
    \/ execute_query(c)
    \/ close(c)

SpecConn == InitConn /\ [][NextConn]_vars

(***************************************************************************)
(* SpecCarePlan: generate_admissions, then a browser session on the        *)
(* Patient Care Plan page over a database whose fact_admissions holds the  *)
(* table generate_admissions returned.  A row of a query result is modelled *)
(* by the admission_id it carries.  Every press of a button reruns the     *)
(* script of the page; st.button is True only in the rerun its press       *)
(* starts, and only if the script reaches it.                              *)
(***************************************************************************)
ViewDraws ==
  [ TimingDraws EXCEPT
      !.days = {0, 32},
      !.hours = {0},
      !.los = [i \in DiagnosisIds |-> {1}],
      !.wards = {1, 2},
      !.beds = {1, 21} ]

\* LIMIT 20 of QUERY_SEARCH_PATIENTS.
SearchLimit == 20

\* What the user searches for: the name or MRN of a patient, or the name of
\* a ward.
SearchTerms ==
  [kind : {"patient"}, id : PatientIds] \cup [kind : {"ward"}, id : WardIds]

\* The WHERE clause of QUERY_SEARCH_PATIENTS: the admissions of a patient
\* whose MRN or name matches, or the admissions to a ward whose name matches.
Matches(term) ==
  { a \in DOMAIN admissions :
      IF term.kind = "patient" THEN admissions[a].patient_id = term.id
      ELSE admissions[a].ward_id = term.id }

\* admission_date of fact_admissions.
AdmissionDate(a) == Date(admissions[a].admission_datetime)

\* ORDER BY a.admission_date DESC of a set of rows: the order of rows of the
\* same date is not specified.
OrderedByAdmissionDateDesc(rows) ==
  { s \in [1..Cardinality(rows) -> rows] :
      /\ \A i, j \in DOMAIN s : i # j => s[i] # s[j]
      /\ \A i, j \in DOMAIN s : i < j => AdmissionDate(s[i]) >= AdmissionDate(s[j]) }

\* The results of QUERY_SEARCH_PATIENTS.
SearchResults(term) ==
  { SubSeq(s, 1, IF Len(s) < SearchLimit THEN Len(s) ELSE SearchLimit) :
      s \in OrderedByAdmissionDateDesc(Matches(term)) }

\* The rows of the results that get a View button: the loop over the rows
\* calls st.button with key view_<patient_id>, which raises DuplicateWidgetID
\* at the second row of a patient; the except clause ends the loop.
ViewButtons(rows) ==
  LET first == { n \in 0..Len(rows) :
                   \A i, j \in 1..n :
                     i # j => admissions[rows[i]].patient_id # admissions[rows[j]].patient_id }
      n == CHOOSE m \in first : \A k \in first : k <= m
  IN SubSeq(rows, 1, n)

\* The admission_id QUERY_PATIENT_DETAILS may return for a patient: the
\* first of the patient's admissions ORDER BY a.admission_date DESC LIMIT 1.
PatientDetails(patient_id) ==
  { a \in DOMAIN admissions :
      /\ admissions[a].patient_id = patient_id
      /\ \A b \in DOMAIN admissions :
           admissions[b].patient_id = patient_id => AdmissionDate(b) <= AdmissionDate(a) }

\* Lines 83-454 of the script with the given st.session_state entry: the
\* Current Admission header shows the row QUERY_PATIENT_DETAILS returns.
Headers(selected) ==
  IF selected = None THEN {None}
  ELSE UNION {{Some(a) : a \in PatientDetails(p)} : p \in selected}

care_frame ==
  << dim_vars, adm_vars, rec_vars, run_vars, db, session, at, rendered, store_vars >>

\* The page is opened.
open_care_plan ==
  /\ pc = "admissions_done"
  /\ pc' = "care_plan"
  /\ page' = "Patient Care Plan"
  /\ UNCHANGED << care_frame, messages, view_vars >>

\* The user presses Search with a search term: the results are listed, each
\* row with a View button.
search_patients ==
  /\ pc = "care_plan"
  /\ \E term \in SearchTerms :
       \E rows \in SearchResults(term) :
         /\ buttons' = ViewButtons(rows)
         /\ messages' = IF Len(ViewButtons(rows)) < Len(rows)
                        THEN {"Error searching patients"}
                        ELSE IF rows = << >> THEN {"No patients found"} ELSE {}
  /\ header' \in Headers(selected_patient)
  /\ clicked' = None
  /\ UNCHANGED << pc, page, care_frame, selected_patient, selected_admission >>

\* The user presses the View button of a row.  In the rerun st.button("Search")
\* returns False, so the block of lines 52-80 with the assignments to
\* st.session_state is not run and the results are not listed.
view_patient ==
  /\ pc = "care_plan"
  /\ \E i \in DOMAIN buttons : clicked' = Some(buttons[i])
  /\ buttons' = << >>
  /\ messages' = {}
  /\ header' \in Headers(selected_patient)
  /\ UNCHANGED << pc, page, care_frame, selected_patient, selected_admission >>

\* The user presses Clear: selected_patient = None, then the script reruns.
clear_patient ==
  /\ pc = "care_plan"
  /\ selected_patient' = None
  /\ buttons' = << >>
  /\ messages' = {}
  /\ header' = None
  /\ clicked' = None
  /\ UNCHANGED << pc, page, care_frame, selected_admission >>

InitCarePlan == main_dimensions(ViewDraws)

NextCarePlan ==
  \/ next_patient(ViewDraws)
  \/ generate_admission(ViewDraws)
  \/ return_admissions
  \/ open_care_plan
  \/ search_patients
  \/ view_patient
  \/ clear_patient

SpecCarePlan == InitCarePlan /\ [][NextCarePlan]_vars

(***************************************************************************)
(* Claims                                                                  *)
(***************************************************************************)
\* An admission is the first of its patient when no admission precedes it in
\* the list or the one before it belongs to another patient.
FirstOfPatient(k) ==
  k = 1 \/ admissions[k - 1].patient_id # admissions[k].patient_id

\* C1: the first admission of a patient is never flagged is_readmission, and
\* a later one is flagged exactly when fewer than 31 whole days lie between
\* the discharge of the admission generated just before it and its own
\* start, i.e. (start - previous discharge).days <= 30, negative gaps
\* included.
C1_ReadmissionIffGapAtMost30 ==
  \A k \in DOMAIN admissions :
    IF FirstOfPatient(k)
    THEN admissions[k].is_readmission = FALSE
    ELSE admissions[k].is_readmission
           <=> (admissions[k].admission_datetime
                  - admissions[k - 1].discharge_datetime < 31 * 24 * 60)

\* A run in which a patient's second admission starts 30 days and one hour
\* after the previous discharge and is flagged, another patient's starts
\* exactly 31 days after and is not, and a third starts before the previous
\* discharge and is flagged.
C1_Witness ==
  /\ pc = "admissions_done"
  /\ \E k \in DOMAIN admissions :
       /\ ~FirstOfPatient(k)
       /\ admissions[k].admission_datetime - admissions[k - 1].discharge_datetime
            = 30 * 24 * 60 + 60
       /\ admissions[k].is_readmission
  /\ \E k \in DOMAIN admissions :
       /\ ~FirstOfPatient(k)
       /\ admissions[k].admission_datetime - admissions[k - 1].discharge_datetime
            = 31 * 24 * 60
       /\ ~admissions[k].is_readmission
  /\ \E k \in DOMAIN admissions :
       /\ k > 1
       /\ FirstOfPatient(k)
       /\ admissions[k].admission_datetime - admissions[k - 1].discharge_datetime
            < 30 * 24 * 60
       /\ ~admissions[k].is_readmission

\* A later admission that starts before the previous discharge is flagged.
C1_WitnessNegativeGap ==
  \E k \in DOMAIN admissions :
    /\ ~FirstOfPatient(k)
    /\ admissions[k].admission_datetime < admissions[k - 1].discharge_datetime
    /\ admissions[k].is_readmission

\* C2: every admission is discharged exactly length_of_stay days after it
\* starts, its length of stay is positive and its discharge is not before
\* its start.
C2_DischargeIsAdmissionPlusLos ==
  \A k \in DOMAIN admissions :
    /\ admissions[k].discharge_datetime
         = admissions[k].admission_datetime + admissions[k].length_of_stay * 1440
    /\ admissions[k].length_of_stay > 0
    /\ admissions[k].discharge_datetime >= admissions[k].admission_datetime

\* An admission that starts at 23:00 on day 32 and stays seven days.
C2_Witness ==
  \E k \in DOMAIN admissions :
    /\ admissions[k].admission_datetime = 32 * 1440 + 23 * 60
    /\ admissions[k].length_of_stay = 7
    /\ admissions[k].discharge_datetime = 39 * 1440 + 23 * 60

\* C3: the length of stay of every admission lies in the range of the
\* severity of the diagnosis whose id is its primary_diagnosis_id: Critical
\* 5..21, Serious 3..14, Moderate and Mild 1..7.
C3_LosWithinSeverityRange ==
  \A k \in DOMAIN admissions :
    LET severity == SeverityLevel[admissions[k].primary_diagnosis_id]
        los == admissions[k].length_of_stay
    IN /\ severity = "Critical" => (5 <= los /\ los <= 21)
       /\ severity = "Serious" => (3 <= los /\ los <= 14)
       /\ severity \in {"Moderate", "Mild"} => (1 <= los /\ los <= 7)
       /\ severity \in {"Critical", "Serious", "Moderate", "Mild"}

\* A finished admission table with a Critical stay of 21 days, a Serious
\* stay of 14 days, a Moderate stay of 7 days and a Mild stay of 1 day.
C3_Witness ==
  /\ pc = "admissions_done"
  /\ \A want \in {<< "Critical", 21 >>, << "Serious", 14 >>, << "Moderate", 7 >>,
                  << "Mild", 1 >>} :
       \E k \in DOMAIN admissions :
         /\ SeverityLevel[admissions[k].primary_diagnosis_id] = want[1]
         /\ admissions[k].length_of_stay = want[2]

\* The admission ids of the admission table.
AdmissionIds == {admissions[k].admission_id : k \in DOMAIN admissions}

\* The staff columns of the rows of the running generator: the columns that
\* must name a physician and those that must name a nurse.  A column that
\* is None names nobody.
PhysicianRefs(r) ==
  CASE gen = "medication" -> {r.prescribed_by_staff_id}
    [] gen = "procedures" -> {r.performed_by_staff_id}
    [] gen = "labs" -> {r.ordered_by_staff_id}
    [] OTHER -> {}

NurseRefs(r) ==
  CASE gen = "medication" -> r.administered_by_staff_id
    [] gen \in {"vitals", "activities"} -> {r.recorded_by_staff_id}
    [] gen = "goals" -> {r.created_by_staff_id}
    [] OTHER -> {}

\* C4: every foreign key of every admission and of every row a dependent
\* generator appends resolves: patient, ward, bed, attending doctor and
\* diagnoses of an admission exist; the admission of a child row exists and
\* belongs to the row's patient; its medication, procedure and staff ids
\* exist.  A staff column that is None (administered_by_staff_id of a dose
\* that was not given) references nothing.
C4_ForeignKeysResolve ==
  /\ \A k \in DOMAIN admissions :
       LET a == admissions[k]
       IN /\ a.patient_id \in PatientIds
          /\ a.ward_id \in WardIds
          /\ a.bed_id \in BedIds
          /\ a.attending_doctor_id \in DOMAIN staff_df
          /\ a.primary_diagnosis_id \in DiagnosisIds
          /\ \A i \in DOMAIN a.secondary_diagnosis_ids :
               a.secondary_diagnosis_ids[i] \in DiagnosisIds
  /\ \A r \in row :
       /\ r.patient_id \in PatientIds
       /\ \E k \in DOMAIN admissions :
            /\ admissions[k].admission_id = r.admission_id
            /\ admissions[k].patient_id = r.patient_id
       /\ PhysicianRefs(r) \cup NurseRefs(r) \subseteq DOMAIN staff_df
       /\ gen = "medication" => r.medication_id \in 1..200
       /\ gen = "procedures" => r.procedure_id \in DOMAIN procedures_df

\* A given dose of medication 200 has been recorded for an admission in bed
\* 305 of ward 12, and so has a dose that was not given.
C4_Witness ==
  /\ gen = "medication"
  /\ \E r \in row :
       /\ r.medication_id = 200
       /\ r.status = "Given"
       /\ r.administered_by_staff_id # {}
       /\ \E k \in DOMAIN admissions :
            /\ admissions[k].admission_id = r.admission_id
            /\ admissions[k].bed_id = 305
            /\ admissions[k].ward_id = 12

\* A dose that was not given has been recorded: its administering nurse is
\* None.
C4_WitnessNotGiven ==
  /\ gen = "medication"
  /\ \E r \in row : r.status = "Refused" /\ r.administered_by_staff_id = {}

\* C5: the staff member a child row names has a permitted role: a
\* Registered Nurse for the recorder of vitals, daily activities and care
\* goals and for the administrator of a dose, an Attending Physician or a
\* Resident for the prescriber of a dose, the performer of a procedure and
\* the orderer of a lab test.
C5_StaffRolesPermitted ==
  \A r \in row :
    /\ \A s \in NurseRefs(r) : staff_df[s] = "Registered Nurse"
    /\ \A s \in PhysicianRefs(r) : staff_df[s] \in {"Attending Physician", "Resident"}

\* The run has finished all six generators with a staff table of a
\* Resident and a Registered Nurse, and the last goal was created by the
\* nurse.
C5_Witness ==
  /\ pc = "records_done"
  /\ gen = "goals"
  /\ \E s \in DOMAIN staff_df : staff_df[s] = "Resident"
  /\ \E r \in row : staff_df[r.created_by_staff_id] = "Registered Nurse"

\* A dose prescribed by a Resident and administered by a Registered Nurse
\* has been recorded.
C5_WitnessDose ==
  /\ gen = "medication"
  /\ \E r \in row :
       /\ staff_df[r.prescribed_by_staff_id] = "Resident"
       /\ \E s \in r.administered_by_staff_id : staff_df[s] = "Registered Nurse"

\* C9: a goal that is Achieved has progress 100, one that is Not Started or
\* Discontinued has progress 0, and one In Progress has a progress between
\* 30 and 90.
C9_GoalProgressMatchesStatus ==
  gen = "goals" =>
    \A r \in row :
      /\ r.status = "Achieved" => r.progress_pct = 100
      /\ r.status \in {"Not Started", "Discontinued"} => r.progress_pct = 0
      /\ r.status = "In Progress" => (30 <= r.progress_pct /\ r.progress_pct <= 90)
      /\ r.status \in {"Achieved", "Not Started", "Discontinued", "In Progress"}

\* A goal in progress at 90 percent has been recorded.
C9_Witness ==
  /\ gen = "goals"
  /\ \E r \in row : r.status = "In Progress" /\ r.progress_pct = 90

\* The sampling fraction the claim states for a generator, in tenths.
ClaimedTenths ==
  CASE gen \in {"medication", "vitals"} -> 3
    [] gen \in {"activities", "procedures"} -> 4
    [] gen = "labs" -> 5
    [] gen = "goals" -> 6
    [] OTHER -> 0

\* C10: the admission ids in the output of a generator are ids of the
\* admission table, and when the generator returns their number is the
\* generator's fraction of the number of admissions rounded to an integer
\* (it differs from fraction * admissions by at most one half).
C10_SampledFractionOfAdmissions ==
  /\ record_admission_ids \subseteq AdmissionIds
  /\ pc = "records_done" =>
       LET tenfold == 10 * Cardinality(record_admission_ids)
           exact == ClaimedTenths * Len(admissions)
       IN /\ 2 * (tenfold - exact) <= 10
          /\ 2 * (exact - tenfold) <= 10

\* The activity generator has returned rows of two of four admissions
\* (0.4 * 4 = 1.6).
C10_Witness ==
  /\ pc = "records_done"
  /\ gen = "activities"
  /\ Len(admissions) = 4
  /\ Cardinality(record_admission_ids) = 2

\* C6: two executions with the same seed and the same configuration build
\* the same tables, whatever the days on which they run: the dimension
\* tables of an execution equal those of the execution before it.
C6_SameSeedSameTables ==
  pc = "staff_done" => \A before \in previous_run : before.tables = DimensionTables

\* The day of the execution is the only input that makes the tables of two
\* executions differ: executions on the same day build the same tables.
SameDaySameTables ==
  pc = "staff_done" =>
    \A before \in previous_run : before.day = today => before.tables = DimensionTables

\* C7: when the run has failed, RAW_DATA_DIR holds under the filenames
\* of the datasets either what it held before the run, all of it, or the
\* files of this run, all of them: never some of each, never a truncated
\* file.
C7_NoHalfWrittenTableSet ==
  pc = "failed" =>
    \/ \A f \in Filenames : output_dir[f] = "previous"
    \/ \A f \in Filenames : output_dir[f] = "new"

\* A run that completes leaves the files of this run, all of them, and
\* before the write loop the directory holds what it held before the run.
CompleteRunLeavesNewTableSet ==
  /\ pc = "complete" => \A f \in Filenames : output_dir[f] = "new"
  /\ pc \notin {"complete", "failed", "records_done"} =>
       \A f \in Filenames : output_dir[f] = "previous"

\* The steps of the blocks of the open page whose if condition holds and
\* whose gate query, if there is one, did not come back without rows.
ShownSteps ==
  UNION {{<< b, i >> : i \in DOMAIN Script(page)[b].steps} :
           b \in {c \in DOMAIN Script(page) :
                     /\ GuardHolds(Script(page)[c])
                     /\ \A q \in Script(page)[c].gate : db[q] # "empty"}}

\* The queries a widget needs: those of its step and the gate query of its
\* block (the tabs of a patient need the patient's current admission).
OwnQueries(block, step) == Range(step.queries) \cup block.gate

\* C8: when the script of a page has run, every widget whose own queries
\* did not fail is rendered, whatever other queries of the page failed, and
\* a widget with a query that failed has the error message of its block
\* shown.
C8_QueryFailureIsolatedToWidget ==
  pc = "page_done" =>
    \A bs \in ShownSteps :
      LET block == Script(page)[bs[1]]
          step == block.steps[bs[2]]
      IN IF \A q \in OwnQueries(block, step) : db[q] # "fails"
         THEN step.widget \subseteq rendered
         ELSE block.message # {} /\ block.message \subseteq messages

\* When no query fails, every widget of the shown blocks is rendered and no
\* error message is shown.
NoFailureAllWidgetsRendered ==
  (pc = "page_done" /\ \A q \in DOMAIN db : db[q] # "fails") =>
    /\ \A bs \in ShownSteps : Script(page)[bs[1]].steps[bs[2]].widget \subseteq rendered
    /\ messages = {}

\* The admissions of patient p generated so far.
AdmissionsOf(p) == {k \in DOMAIN admissions : admissions[k].patient_id = p}

\* C11: the admission ids are 1..N in generation order and every ward_id is
\* one of the 12 configured wards; when generate_admissions returns, every
\* patient has between 2 and 5 admissions, so that the table has between
\* 2P and 5P rows for P patients.
C11_AdmissionCounts ==
  /\ \A k \in DOMAIN admissions :
       admissions[k].admission_id = k /\ admissions[k].ward_id \in 1..12
  /\ pc = "admissions_done" =>
       /\ \A p \in PatientIds :
            2 <= Cardinality(AdmissionsOf(p)) /\ Cardinality(AdmissionsOf(p)) <= 5
       /\ 2 * NumPatients <= Len(admissions)
       /\ Len(admissions) <= 5 * NumPatients

\* A finished table in which the first patient has 2 admissions and the
\* last one 5, with admissions in ward 1 and in ward 12.
C11_Witness ==
  /\ pc = "admissions_done"
  /\ Cardinality(AdmissionsOf(1)) = 2
  /\ Cardinality(AdmissionsOf(NumPatients)) = 5
  /\ \E k, l \in DOMAIN admissions : admissions[k].ward_id = 1 /\ admissions[l].ward_id = 12

\* C12: an admission flagged is_readmission is not the first of its patient,
\* does not start before the discharge of the admission generated before it
\* and starts at most 30 days after that discharge.
C12_FlaggedFollowsDischargeWithin30Days ==
  \A k \in DOMAIN admissions :
    admissions[k].is_readmission =>
      /\ ~FirstOfPatient(k)
      /\ admissions[k].admission_datetime >= admissions[k - 1].discharge_datetime
      /\ admissions[k].admission_datetime - admissions[k - 1].discharge_datetime
           <= 30 * MinutesPerDay

\* What the flag does guarantee: the admission is not the first of its
\* patient and starts less than 31 days after the discharge before it.
FlaggedStartsLessThan31DaysAfterDischarge ==
  \A k \in DOMAIN admissions :
    admissions[k].is_readmission =>
      /\ ~FirstOfPatient(k)
      /\ admissions[k].admission_datetime - admissions[k - 1].discharge_datetime
           < 31 * MinutesPerDay

RateAboveZeroIffSomeShortGap ==
  pc = "admissions_done" =>
    ((\E k \in DOMAIN admissions : admissions[k].is_readmission)
       <=> \E k \in DOMAIN admissions :
             /\ ~FirstOfPatient(k)
             /\ admissions[k].admission_datetime - admissions[k - 1].discharge_datetime
                  < 31 * MinutesPerDay)

\* The timestamp of the event a child row records.
EventDatetime(r) ==
  CASE gen = "medication" -> r.scheduled_datetime
    [] gen \in {"vitals", "activities"} -> r.recorded_datetime
    [] gen = "procedures" -> r.scheduled_datetime
    [] gen = "labs" -> r.collected_datetime

\* C14: the event timestamp of every child row lies in the stay window of
\* its admission: admission_datetime <= t < admission_datetime +
\* length_of_stay days; the activity_date of a daily activity is the date
\* of a moment of the window.
C14_EventWithinStayWindow ==
  gen \in {"medication", "vitals", "activities", "procedures", "labs"} =>
    \A r \in row :
      LET parent == admissions[r.admission_id]
          window_end == parent.admission_datetime + parent.length_of_stay * MinutesPerDay
      IN /\ parent.admission_datetime <= EventDatetime(r)
         /\ EventDatetime(r) < window_end
         /\ gen = "activities" =>
              /\ parent.admission_datetime \div MinutesPerDay <= r.activity_date
              /\ r.activity_date <= (window_end - 1) \div MinutesPerDay

\* Every child row but the medication doses is inside the stay window, and
\* a dose is scheduled no later than the end of the window.
EventWithinStayWindowButLastDose ==
  gen \in {"medication", "vitals", "activities", "procedures", "labs"} =>
    \A r \in row :
      LET parent == admissions[r.admission_id]
          window_end == parent.admission_datetime + parent.length_of_stay * MinutesPerDay
      IN /\ parent.admission_datetime <= EventDatetime(r)
         /\ IF gen = "medication"
            THEN EventDatetime(r) <= window_end
            ELSE EventDatetime(r) < window_end

\* C15: every admission_datetime lies within the horizon: it is not before
\* START_DATE and not after START_DATE + NUM_YEARS years.
C15_AdmissionWithinHorizon ==
  \A k \in DOMAIN admissions :
    /\ 0 <= admissions[k].admission_datetime
    /\ admissions[k].admission_datetime <= HorizonDays * MinutesPerDay

\* Every admission_datetime is on or after START_DATE and before the end of
\* the day that follows the horizon's last day.
AdmissionBeforeEndOfDayAfterHorizon ==
  \A k \in DOMAIN admissions :
    /\ 0 <= admissions[k].admission_datetime
    /\ admissions[k].admission_datetime < (HorizonDays + 1) * MinutesPerDay

\* C16: every admission has one primary diagnosis of the catalog and at most
\* 2 secondary diagnosis ids, pairwise distinct and of the catalog.
C16_PrimaryAndSecondaryDiagnoses ==
  \A k \in DOMAIN admissions :
    LET secondary == admissions[k].secondary_diagnosis_ids
    IN /\ admissions[k].primary_diagnosis_id \in 1..12
       /\ Len(secondary) <= 2
       /\ \A i \in DOMAIN secondary : secondary[i] \in 1..12
       /\ \A i, j \in DOMAIN secondary : i # j => secondary[i] # secondary[j]

\* A finished table with an admission without secondary diagnosis, one with
\* one and one with two.
C16_Witness ==
  /\ pc = "admissions_done"
  /\ \A n \in 0..2 :
       \E k \in DOMAIN admissions : Len(admissions[k].secondary_diagnosis_ids) = n

\* C17: the bed of every admission is a bed of the admission's ward and the
\* attending doctor is an Attending Physician or a Resident.
C17_BedOfWardAndDoctorRole ==
  \A k \in DOMAIN admissions :
    /\ admissions[k].bed_id \in BedIds
    /\ BedWard(admissions[k].bed_id) = admissions[k].ward_id
    /\ staff_df[admissions[k].attending_doctor_id] \in {"Attending Physician", "Resident"}

\* A finished table with admissions in the first and the last bed of ward 1
\* and of ward 12, attended by a Resident beside a nurse practitioner.
C17_Witness ==
  /\ pc = "admissions_done"
  /\ \A b \in {1, 20, 286, 305} : \E k \in DOMAIN admissions : admissions[k].bed_id = b
  /\ \E s \in DOMAIN staff_df : staff_df[s] = "Nurse Practitioner"
  /\ \A k \in DOMAIN admissions : staff_df[admissions[k].attending_doctor_id] = "Resident"

\* C18: a medication row has administered_datetime and
\* administered_by_staff_id exactly when its status is Given; its
\* reason_if_not_given is None when the status is Given, "Patient asleep"
\* when Missed, "Patient refused" when Refused and "Low BP" when Held.
C18_GivenFieldsAndReason ==
  gen = "medication" =>
    \A r \in row :
      /\ r.administered_datetime # {} <=> r.status = "Given"
      /\ r.administered_by_staff_id # {} <=> r.status = "Given"
      /\ r.status = "Given" => r.reason_if_not_given = {}
      /\ r.status = "Missed" => r.reason_if_not_given = {"Patient asleep"}
      /\ r.status = "Refused" => r.reason_if_not_given = {"Patient refused"}
      /\ r.status = "Held" => r.reason_if_not_given = {"Low BP"}
      /\ r.status \in {"Given", "Missed", "Refused", "Held"}

\* A held dose has been recorded: no administration, reason "Low BP".
C18_Witness ==
  /\ gen = "medication"
  /\ \E r \in row :
       /\ r.status = "Held"
       /\ r.reason_if_not_given = {"Low BP"}
       /\ r.administered_datetime = {}

\* A given dose has been recorded, administered 60 minutes after schedule.
C18_WitnessGiven ==
  /\ gen = "medication"
  /\ \E r \in row :
       /\ r.status = "Given"
       /\ r.administered_datetime = {r.scheduled_datetime + 60}
       /\ r.reason_if_not_given = {}

\* C19: the dashboard sends no mutation statement: whatever the user does,
\* every statement sent is a SELECT and the tables of the database keep the
\* contents they were loaded with.
C19_NoMutationStatement ==
  /\ issued \subseteq {"SELECT"}
  /\ \A f \in Filenames : db_tables[f] = "loaded"

\* Only the Initialize button sends anything but a SELECT: as long as no
\* CREATE OR REPLACE TABLE has been sent, the tables are as loaded and only
\* SELECT statements have been sent.
OnlyInitializeMutates ==
  "CREATE OR REPLACE TABLE" \notin issued => C19_NoMutationStatement

\* The admission whose medication rows are being generated.
InMedicationAdmission == gen = "medication" /\ pc = "records" /\ it.k >= 1

\* The (medication, day) pairs of the current admission whose dose loop has
\* ended.
PairsDone == (it.m - 1) * Admission.length_of_stay + it.day

\* The rows generate_medication_administration has emitted for the current
\* admission.
RowsOfAdmission == record_id - it.first_mar_id

\* C20: an admission sampled by generate_medication_administration is
\* assigned between 3 and 8 pairwise distinct medications; every
\* (medication, day of stay) pair gets between 1 and 4 dose rows, the row of
\* dose index i scheduled 8 * i hours after the start of that day of the
\* stay; so the admission has between 3 * LOS and 32 * LOS rows once its
\* loop body has ended.
C20_MedicationsAndDoses ==
  InMedicationAdmission =>
    LET los == Admission.length_of_stay
        rows_of_pairs_done == RowsOfAdmission - (IF it.doses_per_day > 0 THEN it.dose ELSE 0)
    IN /\ Len(it.meds) \in 3..8
       /\ \A i, j \in DOMAIN it.meds : i # j => it.meds[i] # it.meds[j]
       /\ it.doses_per_day \in 0..4
       /\ it.doses_per_day > 0 =>
            /\ it.dose \in 0..(it.doses_per_day - 1)
            /\ it.dose > 0 =>
                 \A r \in row :
                   /\ r.admission_id = Admission.admission_id
                   /\ r.medication_id = it.meds[it.m]
                   /\ r.scheduled_datetime =
                        Admission.admission_datetime + it.day * MinutesPerDay
                          + 8 * (it.dose - 1) * MinutesPerHour
       /\ rows_of_pairs_done >= PairsDone
       /\ rows_of_pairs_done <= 4 * PairsDone
       /\ it.m > Len(it.meds) =>
            /\ RowsOfAdmission >= 3 * los
            /\ RowsOfAdmission <= 32 * los

\* Every row of the medication table is scheduled a multiple of 8 hours,
\* at most 24, after the start of a day of the stay of its admission.
MedicationRowOffsets ==
  gen = "medication" =>
    \A r \in row :
      LET a == admissions[r.admission_id]
      IN \E day \in 0..(a.length_of_stay - 1), dose \in 0..3 :
           r.scheduled_datetime =
             a.admission_datetime + day * MinutesPerDay + 8 * dose * MinutesPerHour

\* An admission of two days with eight medications that got four doses on
\* every day: 64 rows, the last one 24 hours after the start of the last day.
C20_Witness ==
  /\ InMedicationAdmission
  /\ it.m > Len(it.meds)
  /\ Len(it.meds) = 8
  /\ Admission.length_of_stay = 2
  /\ RowsOfAdmission = 64
  /\ \E r \in row :
       r.scheduled_datetime = Admission.admission_datetime + MinutesPerDay + 24 * MinutesPerHour

\* An admission of one day with three medications that got one dose each.
C20_WitnessFewest ==
  /\ InMedicationAdmission
  /\ it.m > Len(it.meds)
  /\ Len(it.meds) = 3
  /\ Admission.length_of_stay = 1
  /\ RowsOfAdmission = 3

\* The rows generate_vital_signs has emitted for the current admission.
VitalsOfAdmission == record_id - it.first_vital_id

\* C21: an admission sampled by generate_vital_signs gets the same number k
\* of vital-sign rows, 2, 3 or 4, on every day of its stay, k being drawn
\* once for the admission: while its rows are generated the admission has k
\* rows for each finished day and the rows of the checks done on the current
\* day, and once its loop body has ended it has k * LOS rows.
C21_SameChecksEveryDay ==
  (gen = "vitals" /\ pc = "records" /\ it.k >= 1) =>
    LET los == Admission.length_of_stay
    IN /\ \A r \in row :
            \E day \in 0..(admissions[r.admission_id].length_of_stay - 1),
               check \in 0..3 :
              r.recorded_datetime =
                admissions[r.admission_id].admission_datetime + day * MinutesPerDay
                  + 6 * check * MinutesPerHour
       /\ IF it.checks_per_day > 0
          THEN /\ it.checks_per_day \in 2..4
               /\ it.day \in 0..(los - 1)
               /\ it.check \in 0..(it.checks_per_day - 1)
               /\ VitalsOfAdmission = it.checks_per_day * it.day + it.check
          ELSE \E k \in 2..4 : VitalsOfAdmission = k * los

\* An admission of three days whose vital signs were checked three times a
\* day has got its nine rows.
C21_Witness ==
  /\ gen = "vitals" /\ pc = "records" /\ it.k >= 1
  /\ it.checks_per_day = 0
  /\ Admission.length_of_stay = 3
  /\ VitalsOfAdmission = 9

\* The rows generate_daily_activities has emitted for the current admission.
ActivitiesOfAdmission == record_id - it.first_activity_id

\* C22: an admission sampled by generate_daily_activities gets one activity
\* row per day of stay, the row of day i dated i days after the date of
\* admission: after i days of the loop it has i rows, the last one dated
\* admission date + i - 1, and once its loop body has ended it has LOS rows.
C22_OneActivityPerDay ==
  (gen = "activities" /\ pc = "records" /\ it.k >= 1) =>
    /\ it.days = Admission.length_of_stay
    /\ it.day \in 0..it.days
    /\ ActivitiesOfAdmission = it.day
    /\ it.day > 0 =>
         \A r \in row :
           /\ r.admission_id = Admission.admission_id
           /\ r.activity_date = Date(Admission.admission_datetime) + it.day - 1

\* An admission of three days that started at 23:59 has got its three rows,
\* the last one dated two days after the admission date.
C22_Witness ==
  /\ gen = "activities" /\ pc = "records" /\ it.k >= 1
  /\ it.day = it.days
  /\ Admission.length_of_stay = 3
  /\ Admission.admission_datetime % MinutesPerDay = 23 * MinutesPerHour + 59
  /\ ActivitiesOfAdmission = 3
  /\ \E r \in row : r.activity_date = Date(Admission.admission_datetime) + 2

\* C23: whatever get_db_connection(), execute_query() and close() calls are
\* made, every get_db_connection() call returns the same DatabaseConnection
\* object, the one the module global holds, and no statement is executed on
\* a handle that is None: execute_query connects first when conn is None,
\* also after a close().
C23_OneObjectNeverNullHandle ==
  /\ objects <= 1
  /\ \A c \in Callers : held[c] # None => held[c] = db_connection
  /\ \A c, e \in Callers : (held[c] # None /\ held[e] # None) => held[c] = held[e]
  /\ "none" \notin ran_on

\* One caller closed the connection and a statement of another caller
\* returned afterwards: the handle is open again.
C23_Witness ==
  /\ pc = "calls"
  /\ conn = "open"
  /\ \E c, e \in Callers :
       /\ c # e
       /\ held[c] = held[e]
       /\ result[c] = "closed"
       /\ result[e] = "DataFrame"

\* The last generator, generate_care_plan_goals, has run through its sample.
AllTablesGenerated ==
  IF gen = Generators[Len(Generators)]
  THEN it.k = Len(sampled_admissions) /\ AtSampleLoopHead
  ELSE FALSE

\* C24: no file is written before all tables are generated: as long as the
\* last generator has not run to its end, and so when a generator has
\* failed, RAW_DATA_DIR holds under every filename what it held before the
\* run and no dataset has been saved.
C24_NoWriteBeforeAllGenerated ==
  ~AllTablesGenerated =>
    /\ saved = 0
    /\ \A f \in Filenames : output_dir[f] = "previous"

\* generate_medication_administration failed on a staff table without a
\* registered nurse after generate_admissions had returned its table.
C24_Witness ==
  /\ pc = "failed"
  /\ gen = "medication"
  /\ Len(admissions) > 0
  /\ ~AllTablesGenerated
  /\ \A f \in Filenames : output_dir[f] = "previous"

\* C25: after View was pressed on a row of the search results, the page
\* shows the admission of that row: st.session_state.selected_admission is
\* the row's admission, and the Current Admission header shows the admission
\* the patient-details query returned, which is that same admission.
C25_HeaderShowsViewedAdmission ==
  clicked # None =>
    /\ selected_admission = clicked
    /\ header = selected_admission

\* In a session that starts with no patient selected, no press of View
\* selects one: the Current Admission header is never shown.
ViewNeverSelects ==
  /\ selected_patient = None
  /\ selected_admission = None
  /\ header = None

\* A View button is shown on the row of an admission that the
\* patient-details query does not return for the patient of the row.
ViewOfferedOnOtherAdmission ==
  \E i \in DOMAIN buttons :
    buttons[i] \notin PatientDetails(admissions[buttons[i]].patient_id)

\* C26: no admission lists its primary diagnosis among its secondary
\* diagnoses.
C26_PrimaryNotAmongSecondary ==
  \A k \in DOMAIN admissions :
    \A i \in DOMAIN admissions[k].secondary_diagnosis_ids :
      admissions[k].secondary_diagnosis_ids[i] # admissions[k].primary_diagnosis_id

\* The derived timestamps of a child row: administered_datetime of a given
\* dose, actual_datetime of a procedure event, resulted_datetime of a lab
\* result.
DerivedDatetimes(r) ==
  CASE gen = "medication" -> r.administered_datetime
    [] gen = "procedures" -> {r.actual_datetime}
    [] gen = "labs" -> {r.resulted_datetime}
    [] OTHER -> {}

\* C27: the derived timestamps of a child row lie in the stay of its
\* admission: not before admission_datetime, not after discharge_datetime.
C27_DerivedWithinStay ==
  \A r \in row :
    \A t \in DerivedDatetimes(r) :
      /\ admissions[r.admission_id].admission_datetime <= t
      /\ t <= admissions[r.admission_id].discharge_datetime

\* How far outside the stay the derived timestamps can be: a dose is given
\* at most 30 minutes before the admission and 60 minutes after the
\* discharge, a procedure takes place within the stay, a lab result comes
\* at most 10 hours after the discharge.
DerivedWithinStayButMargins ==
  \A r \in row :
    \A t \in DerivedDatetimes(r) :
      LET parent == admissions[r.admission_id]
      IN CASE gen = "medication" ->
                /\ parent.admission_datetime - 30 <= t
                /\ t <= parent.discharge_datetime + 60
           [] gen = "procedures" ->
                /\ parent.admission_datetime <= t
                /\ t <= parent.discharge_datetime
           [] gen = "labs" ->
                /\ parent.admission_datetime <= t
                /\ t <= parent.discharge_datetime + 10 * MinutesPerHour

\* C28: every procedure event has a duration_minutes above zero.
C28_DurationPositive ==
  gen = "procedures" => \A r \in row : r.duration_minutes > 0

\* The duration of a procedure event is the average duration of its
\* procedure changed by -30 to 60 minutes: between -15 and 540.
DurationWithinAdjustment ==
  gen = "procedures" =>
    \A r \in row :
      /\ r.duration_minutes - procedures_df[r.procedure_id] \in (-30)..60
      /\ r.duration_minutes \in (-15)..540

\* C29: a care-plan goal is last updated no earlier than it was created, and
\* both timestamps lie in the stay of its admission, from admission_datetime
\* to discharge_datetime.
C29_GoalTimestampsOrderedWithinStay ==
  gen = "goals" =>
    \A r \in row :
      LET parent == admissions[r.admission_id]
      IN /\ r.created_datetime <= r.last_updated_datetime
         /\ parent.admission_datetime <= r.created_datetime
         /\ r.created_datetime <= parent.discharge_datetime
         /\ parent.admission_datetime <= r.last_updated_datetime
         /\ r.last_updated_datetime <= parent.discharge_datetime

\* A goal of an admission of one day, created 24 hours after the admission
\* and last updated one day after it: both at the moment of discharge.
C29_Witness ==
  /\ gen = "goals"
  /\ \E r \in row :
       /\ admissions[r.admission_id].length_of_stay = 1
       /\ r.created_datetime = admissions[r.admission_id].discharge_datetime
       /\ r.last_updated_datetime = r.created_datetime

\* A goal of an admission of two days, created after 2 hours and updated
\* after two days.
C29_WitnessLongerStay ==
  /\ gen = "goals"
  /\ \E r \in row :
       /\ admissions[r.admission_id].length_of_stay = 2
       /\ r.created_datetime = admissions[r.admission_id].admission_datetime + 2 * MinutesPerHour
       /\ r.last_updated_datetime = admissions[r.admission_id].discharge_datetime

\* C30: at the start of every iteration of the inner loop of
\* generate_admissions, admission_id is len(admissions) + 1, so
\* admissions[admission_id - 2] is the admission appended last; when
\* adm_num > 0 it exists and is an admission of the patient of the
\* iteration.
C30_PreviousIsLastOfSamePatient ==
  pc = "admissions" =>
    /\ admission_id = Len(admissions) + 1
    /\ adm_num > 0 =>
         /\ PreviousIndex(admission_id) \in DOMAIN admissions
         /\ PreviousIndex(admission_id) = Len(admissions)
         /\ admissions[PreviousIndex(admission_id)].patient_id = patient

\* The fifth admission of the second patient is about to be generated, after
\* the admissions of the first patient and four of the second.
C30_Witness ==
  /\ pc = "admissions"
  /\ patient = 2
  /\ num_admissions = 5
  /\ adm_num = 4
  /\ admission_id >= 7
  /\ admissions[admission_id - 2].patient_id = 2
  /\ admissions[admission_id - 5].patient_id = 1

====
